---- MODULE Spec2Model ----
(***************************************************************************)
(* Conversational form-filling backend: the chat turn (run_chat_turn), its *)
(* validators and post-processing, and the HTTP handlers that persist a    *)
(* session (/api/chat, /fill, /upload-file, /whatsapp).                    *)
(*                                                                         *)
(* A Python str is a sequence of one-character strings; a character that  *)
(* is not ASCII is written "U+XXXX".  None, True and False are one-element *)
(* sequences whose element is no character, so they differ from every str. *)
(* A dict is a function; dict.get(k) of an absent key is None.             *)
(***************************************************************************)
EXTENDS Integers, Sequences, FiniteSets, TLC

None == <<"None">>
PyTrue == <<"True">>
PyFalse == <<"False">>

NotStr == {None, PyTrue, PyFalse}
IsStr(v) == v \notin NotStr

\* bool(x) of a str or None: the empty string and None are falsy.
Falsy == {None, <<>>, PyFalse}
Truthy(v) == v \notin Falsy

\* str(v)
PyStr(v) ==
    IF v = None THEN <<"N","o","n","e">>
    ELSE IF v = PyTrue THEN <<"T","r","u","e">>
    ELSE IF v = PyFalse THEN <<"F","a","l","s","e">>
    ELSE v

Get(d, k) == IF k \in DOMAIN d THEN d[k] ELSE None

GetOr(d, k, dflt) == IF k \in DOMAIN d THEN d[k] ELSE dflt

\* {**a, **b}
Merge(a, b) == [k \in (DOMAIN a) \cup (DOMAIN b) |-> IF k \in DOMAIN b THEN b[k] ELSE a[k]]

EmptyDict == [k \in {} |-> None]

Without(d, ks) == [k \in (DOMAIN d) \ ks |-> d[k]]

SetMin(S) == CHOOSE x \in S : \A y \in S : x <= y
SetMax(S) == CHOOSE x \in S : \A y \in S : x >= y

UpperLetters == <<"A","B","C","D","E","F","G","H","I","J","K","L","M","N","O","P","Q","R","S","T","U","V","W","X","Y","Z">>
LowerLetters == <<"a","b","c","d","e","f","g","h","i","j","k","l","m","n","o","p","q","r","s","t","u","v","w","x","y","z">>

Range(s) == {s[i] : i \in DOMAIN s}

UpperSet == Range(UpperLetters)
LowerSet == Range(LowerLetters)
IsUpperAZ(c) == c \in UpperSet
IsLowerAZ(c) == c \in LowerSet
\* \d of the regular expressions, on the characters the inputs use
Digits == {"0","1","2","3","4","5","6","7","8","9"}
IsDigit(c) == c \in Digits
\* \s
Whitespace == {" ", "\t", "\n", "\r"}
IsSpace(c) == c \in Whitespace
\* \w: letters, digits and the underscore (a Devanagari letter is a word
\* character too, a combining vowel sign is not)
WordChars == UpperSet \cup LowerSet \cup Digits \cup {"_", "U+092A", "U+0924", "U+0928", "U+0939"}
IsWordChar(c) == c \in WordChars

LowerOf == [c \in UpperSet |-> LowerLetters[CHOOSE i \in DOMAIN UpperLetters : UpperLetters[i] = c]]
UpperOf == [c \in LowerSet |-> UpperLetters[CHOOSE i \in DOMAIN LowerLetters : LowerLetters[i] = c]]
LowerChar(c) == IF IsUpperAZ(c) THEN LowerOf[c] ELSE c
UpperChar(c) == IF IsLowerAZ(c) THEN UpperOf[c] ELSE c

Lower(s) == [i \in 1..Len(s) |-> LowerChar(s[i])]
Upper(s) == [i \in 1..Len(s) |-> UpperChar(s[i])]

Strip(s) ==
    LET keep == {i \in 1..Len(s) : ~IsSpace(s[i])}
    IN IF keep = {} THEN <<>> ELSE SubSeq(s, SetMin(keep), SetMax(keep))

\* re.sub(r"[...]", "", s) for a character class
DropChars(s, cls) == SelectSeq(s, LAMBDA c : c \notin cls)
DropSpaces(s) == SelectSeq(s, LAMBDA c : ~IsSpace(c))

\* t in s
Contains(s, t) == \E i \in 1..(Len(s) - Len(t) + 1) : \A j \in 1..Len(t) : s[i + j - 1] = t[j]

StartsWith(s, t) == Len(s) >= Len(t) /\ SubSeq(s, 1, Len(t)) = t
EndsWith(s, t) == Len(s) >= Len(t) /\ SubSeq(s, Len(s) - Len(t) + 1, Len(s)) = t

AllIn(s, lo, hi, P(_)) == \A i \in lo..hi : P(s[i])

\* sep.join(parts)
RECURSIVE Join(_, _)
Join(sep, parts) ==
    IF parts = <<>> THEN <<>>
    ELSE IF Len(parts) = 1 THEN parts[1]
    ELSE parts[1] \o sep \o Join(sep, Tail(parts))

\* a word boundary (\b) of s just before position i (1..Len(s)+1)
Boundary(s, i) ==
    LET before == i > 1 /\ IsWordChar(s[i - 1])
        after == i <= Len(s) /\ IsWordChar(s[i])
    IN before # after

\* re.search(r"\b" + w + r"\b", s)
ContainsWord(s, w) ==
    \E i \in 1..(Len(s) - Len(w) + 1) :
        /\ \A j \in 1..Len(w) : s[i + j - 1] = w[j]
        /\ Boundary(s, i)
        /\ Boundary(s, i + Len(w))

(***************************************************************************)
(* Language detection (chat_engine.py, detect_language)                    *)
(***************************************************************************)

\* ord(c): printable ASCII by position, "U+XXXX" for the Devanagari characters
\* the inputs use
AsciiPrintable == <<" ","!","U+0022","#","$","%","&","'","(",")","*","+",",","-",".","/","0","1","2","3","4","5","6","7","8","9",":",";","<","=",">","?","@","A","B","C","D","E","F","G","H","I","J","K","L","M","N","O","P","Q","R","S","T","U","V","W","X","Y","Z","[","U+005C","]","^","_","U+0060","a","b","c","d","e","f","g","h","i","j","k","l","m","n","o","p","q","r","s","t","u","v","w","x","y","z","{","|","}","~">>

AsciiOrd == [c \in Range(AsciiPrintable) |->
                31 + (CHOOSE i \in DOMAIN AsciiPrintable : AsciiPrintable[i] = c)]

Ord(c) ==
    IF c \in DOMAIN AsciiOrd THEN AsciiOrd[c]
    ELSE CASE c = "\n" -> 10
           [] c = "\t" -> 9
           [] c = "\r" -> 13
           [] c = "U+0924" -> 2340
           [] c = "U+0928" -> 2344
           [] c = "U+092A" -> 2346
           [] c = "U+0939" -> 2361
           [] c = "U+093E" -> 2366
           [] c = "U+0940" -> 2368
           [] c = "U+0902" -> 2306
           [] c = "U+0901" -> 2305
           [] c = "U+1F389" -> 127881

\* SCRIPT_RANGES, in the dict's order
SCRIPT_RANGES == <<
    [lang |-> "hi", lo |-> 2304, hi |-> 2431],
    [lang |-> "ta", lo |-> 2944, hi |-> 3071],
    [lang |-> "te", lo |-> 3072, hi |-> 3199],
    [lang |-> "bn", lo |-> 2432, hi |-> 2559],
    [lang |-> "gu", lo |-> 2688, hi |-> 2815] >>

MARATHI_MARKERS == {<<"U+0906","U+0939","U+0947">>, <<"U+0906","U+0939","U+0947","U+0924">>, <<"U+092E","U+093E","U+091D","U+0947">>, <<"U+092E","U+093E","U+091D","U+0940">>, <<"U+092E","U+0932","U+093E">>, <<"U+0924","U+0941","U+092E","U+091A","U+0947">>, <<"U+0928","U+093E","U+0935">>, <<"U+0938","U+093E","U+0902","U+0917","U+093E">>, <<"U+0915","U+0930","U+093E">>}

HINGLISH_MARKERS == {<<"m","e","r","a">>, <<"m","e","r","i">>, <<"m","u","j","h","e">>, <<"a","a","p","k","a">>, <<"a","a","p","k","i">>, <<"h","a","i">>, <<"h","a","i","n">>,
    <<"n","a","a","m">>, <<"k","y","a">>, <<"n","a","h","i">>, <<"n","a","h","i","n">>, <<"h","a","a","n">>, <<"a","c","h","h","a">>, <<"t","h","e","e","k">>,
    <<"b","a","t","a">>, <<"c","h","a","h","i","y","e">>, <<"k","a","r","e","i","n">>, <<"d","i","j","i","y","e">>}

NoLang == "none"

detect_language(text) ==
    LET ords == [j \in DOMAIN text |-> Ord(text[j])]
        text_lower == Lower(text)
        hit == {i \in DOMAIN SCRIPT_RANGES :
                  \E j \in DOMAIN text : /\ SCRIPT_RANGES[i].lo <= ords[j]
                                         /\ ords[j] <= SCRIPT_RANGES[i].hi}
    IN IF hit # {}
       THEN LET lang == SCRIPT_RANGES[SetMin(hit)].lang
            IN IF lang = "hi" /\ \E m \in MARATHI_MARKERS : Contains(text, m)
               THEN "mr" ELSE lang
       ELSE IF Cardinality({w \in HINGLISH_MARKERS : ContainsWord(text_lower, w)}) >= 2
            THEN "hi" ELSE NoLang

(***************************************************************************)
(* Tier 1: hard validators (chat_engine.py, _hard_validate)                *)
(***************************************************************************)

\* ^[6-9]\d{9}$
\* [6-9]
SixToNine == {"6","7","8","9"}
IsPhone(s) == Len(s) = 10 /\ s[1] \in SixToNine /\ AllIn(s, 2, 10, IsDigit)
\* ^[A-Z]{5}[0-9]{4}[A-Z]$
IsPan(s) == Len(s) = 10 /\ AllIn(s, 1, 5, IsUpperAZ) /\ AllIn(s, 6, 9, IsDigit) /\ IsUpperAZ(s[10])
\* ^\d{12}$
IsAadhaar(s) == Len(s) = 12 /\ AllIn(s, 1, 12, IsDigit)
\* ^\d{2}[A-Z]{5}\d{4}[A-Z]\d[Z][A-Z\d]$
IsGstin(s) ==
    /\ Len(s) = 15
    /\ AllIn(s, 1, 2, IsDigit) /\ AllIn(s, 3, 7, IsUpperAZ) /\ AllIn(s, 8, 11, IsDigit)
    /\ IsUpperAZ(s[12]) /\ IsDigit(s[13]) /\ s[14] = "Z"
    /\ (IsUpperAZ(s[15]) \/ IsDigit(s[15]))
\* ^[A-Z]{4}0[A-Z0-9]{6}$
IsIfsc(s) ==
    /\ Len(s) = 11
    /\ AllIn(s, 1, 4, IsUpperAZ) /\ s[5] = "0"
    /\ \A i \in 6..11 : IsUpperAZ(s[i]) \/ IsDigit(s[i])
\* ^[A-Z]{4}[0-9]{5}[A-Z]$
IsTan(s) == Len(s) = 10 /\ AllIn(s, 1, 4, IsUpperAZ) /\ AllIn(s, 5, 9, IsDigit) /\ IsUpperAZ(s[10])

\* [^@\s]+
IsLocalPart(s) == Len(s) >= 1 /\ \A i \in DOMAIN s : s[i] # "@" /\ ~IsSpace(s[i])
\* ^[^@\s]+@[^@\s]+\.[^@\s]+$
IsEmail(s) ==
    \E a \in 1..Len(s) : \E d \in (a + 1)..Len(s) :
        /\ s[a] = "@" /\ s[d] = "."
        /\ IsLocalPart(SubSeq(s, 1, a - 1))
        /\ IsLocalPart(SubSeq(s, a + 1, d - 1))
        /\ IsLocalPart(SubSeq(s, d + 1, Len(s)))

NoErr == "none"

\* (normalised value, error message); the error is NoErr when there is none
_hard_validate(key, value, field) ==
    LET name_low == Lower(key)
        v == Upper(Strip(value))
        v_raw == Strip(value)
    IN
    IF \/ Contains(name_low, <<"p","h","o","n","e">>) \/ Contains(name_low, <<"m","o","b","i","l","e">>)
       \/ field.data_type = "phone" \/ field.validation_type = "phone"
    THEN LET d0 == DropChars(v_raw, (Whitespace \cup {"-", "+", "(", ")"}))
             digits == IF StartsWith(d0, <<"9","1">>) /\ Len(d0) = 12 THEN SubSeq(d0, 3, 12) ELSE d0
         IN IF IsPhone(digits) THEN [val |-> digits, err |-> NoErr]
            ELSE [val |-> None, err |-> "That doesn't look like a valid 10-digit Indian mobile number. Could you share it again?"]
    ELSE IF Contains(name_low, <<"p","a","n">>) /\ ~Contains(name_low, <<"c","o","m","p","a","n","y">>)
    THEN LET pan == DropSpaces(v)
         IN IF IsPan(pan) THEN [val |-> pan, err |-> NoErr]
            ELSE [val |-> None, err |-> "PAN should be in the format ABCDE1234F (5 letters, 4 digits, 1 letter). Please check and re-enter."]
    ELSE IF Contains(name_low, <<"a","a","d","h","a","a","r">>) \/ Contains(name_low, <<"a","a","d","h","a","r">>)
    THEN LET digits == DropChars(v_raw, (Whitespace \cup {"-"}))
         IN IF IsAadhaar(digits) THEN [val |-> digits, err |-> NoErr]
            ELSE [val |-> None, err |-> "Aadhaar number should be exactly 12 digits. Please re-enter."]
    ELSE IF Contains(name_low, <<"g","s","t","i","n">>) \/ (Contains(name_low, <<"g","s","t">>) /\ Contains(name_low, <<"n","u","m","b","e","r">>))
    THEN LET gstin == DropSpaces(v)
         IN IF IsGstin(gstin) THEN [val |-> gstin, err |-> NoErr]
            ELSE [val |-> None, err |-> "GSTIN should be 15 characters (e.g. 22ABCDE1234F1Z5). Please check and re-enter."]
    ELSE IF Contains(name_low, <<"i","f","s","c">>)
    THEN LET ifsc == DropSpaces(v)
         IN IF IsIfsc(ifsc) THEN [val |-> ifsc, err |-> NoErr]
            ELSE [val |-> None, err |-> "IFSC code should be 11 characters starting with 4 letters, then 0, then 6 alphanumeric (e.g. SBIN0001234). Please re-enter."]
    ELSE IF name_low = <<"t","a","n">> \/ StartsWith(name_low, <<"t","a","n","_">>) \/ EndsWith(name_low, <<"_","t","a","n">>)
    THEN LET tan == DropSpaces(v)
         IN IF IsTan(tan) THEN [val |-> tan, err |-> NoErr]
            ELSE [val |-> None, err |-> "TAN should be 10 characters (4 letters, 5 digits, 1 letter). Please re-enter."]
    ELSE IF field.validation_type = "email" \/ field.field_type = "email"
    THEN IF IsEmail(v_raw) THEN [val |-> Lower(v_raw), err |-> NoErr]
         ELSE [val |-> None, err |-> "That email address doesn't look right. Could you double-check it?"]
    ELSE [val |-> value, err |-> NoErr]

(***************************************************************************)
(* Regular-expression helpers                                              *)
(***************************************************************************)

\* s[i:i+len(w)] == w
MatchAt(s, i, w) == i >= 1 /\ i + Len(w) - 1 <= Len(s) /\ SubSeq(s, i, i + Len(w) - 1) = w

\* the last index of the maximal run of characters satisfying P that starts
\* at i, where P(s[i])
RunEnd(s, i, P(_)) == SetMin({j \in i..Len(s) : j = Len(s) \/ ~P(s[j + 1])})

\* str.split(): the maximal runs of non-space characters
RECURSIVE SplitWs(_)
SplitWs(s) ==
    LET starts == {i \in DOMAIN s : ~IsSpace(s[i])}
    IN IF starts = {} THEN <<>>
       ELSE LET b == SetMin(starts)
                ends == {j \in b..Len(s) : j = Len(s) \/ IsSpace(s[j + 1])}
                e == SetMin(ends)
            IN <<SubSeq(s, b, e)>> \o SplitWs(SubSeq(s, e + 1, Len(s)))

\* the non-empty pieces of re.split(r"[...]+", s) for a character class
RECURSIVE SplitOn(_, _)
SplitOn(s, cls) ==
    LET starts == {i \in DOMAIN s : s[i] \notin cls}
    IN IF starts = {} THEN <<>>
       ELSE LET b == SetMin(starts)
                e == SetMin({j \in b..Len(s) : j = Len(s) \/ s[j + 1] \in cls})
            IN <<SubSeq(s, b, e)>> \o SplitOn(SubSeq(s, e + 1, Len(s)), cls)

\* the alternatives of alts that match s at i as \b(alt)\b, ignoring case
NoiseAt(s, i, alts) ==
    {a \in DOMAIN alts :
        /\ i + Len(alts[a]) - 1 <= Len(s)
        /\ Lower(SubSeq(s, i, i + Len(alts[a]) - 1)) = alts[a]
        /\ Boundary(s, i)
        /\ Boundary(s, i + Len(alts[a]))}

\* re.sub(r"\b(a1|a2|...)\b", repl, s, flags=re.IGNORECASE) from position i on
RECURSIVE SubWords(_, _, _, _)
SubWords(s, i, alts, repl) ==
    IF i > Len(s) THEN <<>>
    ELSE LET hit == NoiseAt(s, i, alts)
         IN IF hit # {}
            THEN repl \o SubWords(s, i + Len(alts[SetMin(hit)]), alts, repl)
            ELSE <<s[i]>> \o SubWords(s, i + 1, alts, repl)

\* re.sub(r"\s+", " ", s)
RECURSIVE CollapseWs(_, _)
CollapseWs(s, i) ==
    IF i > Len(s) THEN <<>>
    ELSE IF IsSpace(s[i]) THEN <<" ">> \o CollapseWs(s, RunEnd(s, i, IsSpace) + 1)
    ELSE <<s[i]>> \o CollapseWs(s, i + 1)

\* s.replace(t, r, count), t not empty
RECURSIVE Replace(_, _, _, _)
Replace(s, t, r, count) ==
    IF count = 0 \/ Len(s) < Len(t) THEN s
    ELSE IF MatchAt(s, 1, t) THEN r \o Replace(SubSeq(s, Len(t) + 1, Len(s)), t, r, count - 1)
    ELSE <<s[1]>> \o Replace(Tail(s), t, r, count)

\* s.rstrip(chars)
RECURSIVE RStripChars(_, _)
RStripChars(s, chars) ==
    IF s # <<>> /\ s[Len(s)] \in chars THEN RStripChars(SubSeq(s, 1, Len(s) - 1), chars) ELSE s

\* str(n) for n >= 0
DigitChars == <<"0","1","2","3","4","5","6","7","8","9">>
RECURSIVE IntToStr(_)
IntToStr(n) == IF n < 10 THEN <<DigitChars[n + 1]>> ELSE IntToStr(n \div 10) \o <<DigitChars[(n % 10) + 1]>>

\* int(s) of a string of digits
DigitVal == [c \in Digits |-> (CHOOSE i \in DOMAIN DigitChars : DigitChars[i] = c) - 1]
RECURSIVE StrToInt(_)
StrToInt(s) == IF s = <<>> THEN 0 ELSE 10 * StrToInt(SubSeq(s, 1, Len(s) - 1)) + DigitVal[s[Len(s)]]

\* ^\d+$
IsDigits(s) == s # <<>> /\ \A i \in DOMAIN s : IsDigit(s[i])

(***************************************************************************)
(* Tier 2: number words (chat_engine.py, _words_to_number)                 *)
(***************************************************************************)

_WORD_NUMBERS ==
    (<<"z","e","r","o">> :> 0) @@ (<<"o","n","e">> :> 1) @@ (<<"t","w","o">> :> 2) @@ (<<"t","h","r","e","e">> :> 3) @@ (<<"f","o","u","r">> :> 4)
    @@ (<<"f","i","v","e">> :> 5) @@ (<<"s","i","x">> :> 6) @@ (<<"s","e","v","e","n">> :> 7) @@ (<<"e","i","g","h","t">> :> 8) @@ (<<"n","i","n","e">> :> 9)
    @@ (<<"t","e","n">> :> 10) @@ (<<"e","l","e","v","e","n">> :> 11) @@ (<<"t","w","e","l","v","e">> :> 12) @@ (<<"t","h","i","r","t","e","e","n">> :> 13)
    @@ (<<"f","o","u","r","t","e","e","n">> :> 14) @@ (<<"f","i","f","t","e","e","n">> :> 15) @@ (<<"s","i","x","t","e","e","n">> :> 16) @@ (<<"s","e","v","e","n","t","e","e","n">> :> 17)
    @@ (<<"e","i","g","h","t","e","e","n">> :> 18) @@ (<<"n","i","n","e","t","e","e","n">> :> 19) @@ (<<"t","w","e","n","t","y">> :> 20) @@ (<<"t","h","i","r","t","y">> :> 30)
    @@ (<<"f","o","r","t","y">> :> 40) @@ (<<"f","i","f","t","y">> :> 50) @@ (<<"s","i","x","t","y">> :> 60) @@ (<<"s","e","v","e","n","t","y">> :> 70)
    @@ (<<"e","i","g","h","t","y">> :> 80) @@ (<<"n","i","n","e","t","y">> :> 90) @@ (<<"h","u","n","d","r","e","d">> :> 100) @@ (<<"t","h","o","u","s","a","n","d">> :> 1000)
    @@ (<<"l","a","k","h">> :> 100000) @@ (<<"l","a","c">> :> 100000) @@ (<<"l","a","k","h","s">> :> 100000)
    @@ (<<"c","r","o","r","e">> :> 10000000) @@ (<<"c","r","o","r","e","s">> :> 10000000)

\* the None of an int-valued result
NoNum == -1

\* the value of one token: the lookup after the three rstrip calls, then
\* after one more rstrip("s")
WordValue(tok) ==
    LET t == RStripChars(RStripChars(RStripChars(tok, {"s", "t", "h"}), {"n", "d"}), {"r", "d"})
    IN IF t \in DOMAIN _WORD_NUMBERS THEN _WORD_NUMBERS[t]
       ELSE IF RStripChars(t, {"s"}) \in DOMAIN _WORD_NUMBERS
            THEN _WORD_NUMBERS[RStripChars(t, {"s"})]
            ELSE NoNum

\* the loop over the tokens from i on, and the final result += current
RECURSIVE WordsFold(_, _, _, _)
WordsFold(tokens, i, result, current) ==
    IF i > Len(tokens) THEN result + current
    ELSE LET n == WordValue(tokens[i])
         IN IF n = NoNum THEN WordsFold(tokens, i + 1, result, current)
            ELSE IF n = 100
                 THEN WordsFold(tokens, i + 1, result, (IF current # 0 THEN current ELSE 1) * 100)
            ELSE IF n >= 1000
                 THEN WordsFold(tokens, i + 1, result + (IF current # 0 THEN current ELSE 1) * n, 0)
            ELSE WordsFold(tokens, i + 1, result, current + n)

WordsSum(text) ==
    LET result == WordsFold(SplitOn(text, (Whitespace \cup {"-"})), 1, 0, 0)
    IN IF result > 0 THEN result ELSE NoNum

\* an int, or NoNum
_words_to_number(text0) ==
    LET text == Strip(Lower(text0))
        clean == DropChars(text, (Whitespace \cup {","}))
    IN IF IsDigits(clean) THEN StrToInt(clean) ELSE WordsSum(text)

(***************************************************************************)
(* Tier 2: dates (chat_engine.py, parse_date).  The parse is a chain: each *)
(* step takes the text left by the one before and what has been found.     *)
(***************************************************************************)

_MONTH_MAP == <<
    [name |-> <<"j","a","n">>, num |-> 1], [name |-> <<"j","a","n","u","a","r","y">>, num |-> 1],
    [name |-> <<"f","e","b">>, num |-> 2], [name |-> <<"f","e","b","r","u","a","r","y">>, num |-> 2],
    [name |-> <<"m","a","r">>, num |-> 3], [name |-> <<"m","a","r","c","h">>, num |-> 3],
    [name |-> <<"a","p","r">>, num |-> 4], [name |-> <<"a","p","r","i","l">>, num |-> 4],
    [name |-> <<"m","a","y">>, num |-> 5],
    [name |-> <<"j","u","n">>, num |-> 6], [name |-> <<"j","u","n","e">>, num |-> 6],
    [name |-> <<"j","u","l">>, num |-> 7], [name |-> <<"j","u","l","y">>, num |-> 7],
    [name |-> <<"a","u","g">>, num |-> 8], [name |-> <<"a","u","g","u","s","t">>, num |-> 8],
    [name |-> <<"s","e","p">>, num |-> 9], [name |-> <<"s","e","p","t">>, num |-> 9], [name |-> <<"s","e","p","t","e","m","b","e","r">>, num |-> 9],
    [name |-> <<"o","c","t">>, num |-> 10], [name |-> <<"o","c","t","o","b","e","r">>, num |-> 10],
    [name |-> <<"n","o","v">>, num |-> 11], [name |-> <<"n","o","v","e","m","b","e","r">>, num |-> 11],
    [name |-> <<"d","e","c">>, num |-> 12], [name |-> <<"d","e","c","e","m","b","e","r">>, num |-> 12] >>

\* \b(of|the|on|dated?|dob|born|birth|date)\b replaced by a space, \s+ collapsed
DateClean(text) == Strip(CollapseWs(SubWords(Strip(Lower(text)), 1, <<<<"o","f">>, <<"t","h","e">>, <<"o","n">>, <<"d","a","t","e","d">>, <<"d","a","t","e">>, <<"d","o","b">>, <<"b","o","r","n">>, <<"b","i","r","t","h">>, <<"d","a","t","e">>>>, <<" ">>), 1))

\* (nineteen|twenty) at i, or the empty string
CenturyAt(s, i) ==
    IF MatchAt(s, i, <<"n","i","n","e","t","e","e","n">>) THEN <<"n","i","n","e","t","e","e","n">>
    ELSE IF MatchAt(s, i, <<"t","w","e","n","t","y">>) THEN <<"t","w","e","n","t","y">> ELSE <<>>

\* where a word starts after the white space that starts at p, or 0
WordAfterWs(s, p) ==
    IF p <= Len(s) /\ IsSpace(s[p]) /\ RunEnd(s, p, IsSpace) < Len(s)
       /\ IsWordChar(s[RunEnd(s, p, IsSpace) + 1])
    THEN RunEnd(s, p, IsSpace) + 1 ELSE 0

\* \b(nineteen|twenty)\s+(\w+) matches at i
YearWordAt(s, i) ==
    /\ Boundary(s, i)
    /\ CenturyAt(s, i) # <<>>
    /\ WordAfterWs(s, i + Len(CenturyAt(s, i))) # 0

\* the groups of \b(nineteen|twenty)\s+(\w+)(?:\s+(\w+))?\b matched at i,
\* q the start and r the end of the second group
YearWordGroups(s, i, q, r) ==
    LET u == WordAfterWs(s, r + 1)
    IN [century |-> CenturyAt(s, i),
        rest |-> SubSeq(s, q, r),
        extra |-> IF u # 0 THEN SubSeq(s, u, RunEnd(s, u, IsWordChar)) ELSE <<>>,
        start |-> i,
        stop |-> IF u # 0 THEN RunEnd(s, u, IsWordChar) ELSE r]

\* the year of a word-form match and the text with the match removed
YearOfWords(s, m, decade, units) ==
    [tc |-> Strip(SubSeq(s, 1, m.start - 1) \o SubSeq(s, m.stop + 1, Len(s))),
     year |-> IF decade # NoNum
              THEN (IF m.century = <<"n","i","n","e","t","e","e","n">> THEN 1900 ELSE 2000) + decade
                   + (IF units = NoNum THEN 0 ELSE units)
              ELSE NoNum,
     confident |-> TRUE]

YearWordMatch(s, m) ==
    YearOfWords(s, m, _words_to_number(m.rest),
                IF m.extra # <<>> THEN _words_to_number(m.extra) ELSE 0)

YearWordFrom(s, i, q) == YearWordMatch(s, YearWordGroups(s, i, q, RunEnd(s, q, IsWordChar)))

\* the word-form year
YearWords(s) ==
    LET at == {i \in DOMAIN s : YearWordAt(s, i)}
    IN IF at = {} THEN [tc |-> s, year |-> NoNum, confident |-> TRUE]
       ELSE YearWordFrom(s, SetMin(at), WordAfterWs(s, SetMin(at) + Len(CenturyAt(s, SetMin(at)))))

\* \b(19\d{2}|20\d{2})\b matches at i
Year4At(s, i) ==
    /\ i + 3 <= Len(s)
    /\ Boundary(s, i)
    /\ SubSeq(s, i, i + 1) \in {<<"1","9">>, <<"2","0">>}
    /\ IsDigit(s[i + 2]) /\ IsDigit(s[i + 3])
    /\ Boundary(s, i + 4)

\* \b(\d{2})\b matches at i
Year2At(s, i) ==
    /\ i + 1 <= Len(s)
    /\ Boundary(s, i)
    /\ IsDigit(s[i]) /\ IsDigit(s[i + 1])
    /\ Boundary(s, i + 2)

\* the four-digit year (every occurrence of its digits removed), else the
\* two-digit year (its first occurrence removed), of the text a word-form
\* search left without a year
YearDigits(s) ==
    LET at4 == {i \in DOMAIN s : Year4At(s, i)}
        at2 == {i \in DOMAIN s : Year2At(s, i)}
        g4 == SubSeq(s, SetMin(at4), SetMin(at4) + 3)
        g2 == SubSeq(s, SetMin(at2), SetMin(at2) + 1)
    IN IF at4 # {}
       THEN [tc |-> Strip(Replace(s, g4, <<>>, Len(s))), year |-> StrToInt(g4), confident |-> TRUE]
       ELSE IF at2 # {}
       THEN [tc |-> Strip(Replace(s, g2, <<>>, 1)),
             year |-> IF StrToInt(g2) >= 30 THEN 1900 + StrToInt(g2) ELSE 2000 + StrToInt(g2),
             confident |-> FALSE]
       ELSE [tc |-> s, year |-> NoNum, confident |-> TRUE]

YearStep(w) == IF w.year # NoNum THEN w ELSE YearDigits(w.tc)

\* the first month of _MONTH_MAP that the text has as a word
MonthStep(y) ==
    LET hit == {k \in DOMAIN _MONTH_MAP : ContainsWord(y.tc, _MONTH_MAP[k].name)}
    IN IF hit = {} THEN [tc |-> y.tc, year |-> y.year, confident |-> y.confident, month |-> NoNum]
       ELSE [tc |-> Strip(SubWords(y.tc, 1, <<_MONTH_MAP[SetMin(hit)].name>>, <<>>)),
             year |-> y.year, confident |-> y.confident, month |-> _MONTH_MAP[SetMin(hit)].num]

\* \b(\d{1,2})\b matches at i: the length of the match, or 0
DayAt(s, i) ==
    IF Boundary(s, i) /\ i <= Len(s) /\ IsDigit(s[i])
    THEN IF i + 1 <= Len(s) /\ IsDigit(s[i + 1]) /\ Boundary(s, i + 2) THEN 2
         ELSE IF Boundary(s, i + 1) THEN 1 ELSE 0
    ELSE 0

DayDigits(s) ==
    LET at == {i \in DOMAIN s : DayAt(s, i) > 0}
    IN IF at = {} THEN NoNum
       ELSE LET d == StrToInt(SubSeq(s, SetMin(at), SetMin(at) + DayAt(s, SetMin(at)) - 1))
            IN IF 1 <= d /\ d <= 31 THEN d ELSE NoNum

\* the day in words when it is one of 1..31, else the day in digits
DayStep(m) ==
    LET day_num == _words_to_number(m.tc)
    IN [year |-> m.year, month |-> m.month,
        day |-> IF day_num # NoNum /\ 1 <= day_num /\ day_num <= 31 THEN day_num ELSE DayDigits(m.tc),
        confident |-> m.confident]

\* the separators of the numeric fallback, in the loop's order
DATE_SEPARATORS == <<{"/"}, {"-"}, {"."}, Whitespace>>

\* the last digit of the run of digits that starts at i, at most max long
DigitsEnd(s, i, max) ==
    IF i <= Len(s) /\ IsDigit(s[i])
    THEN (IF RunEnd(s, i, IsDigit) < i + max - 1 THEN RunEnd(s, i, IsDigit) ELSE i + max - 1)
    ELSE 0

\* (\d{1,4})sep(\d{1,2})sep(\d{2,4}) matches at i: the ends of the three
\* groups, e3 = 0 when it does not
NumericAt(s, i, sep) ==
    LET e1 == DigitsEnd(s, i, 4)
        e2 == DigitsEnd(s, e1 + 2, 2)
        e3 == DigitsEnd(s, e2 + 2, 4)
        ok == /\ e1 # 0 /\ e1 + 1 <= Len(s) /\ s[e1 + 1] \in sep
              /\ e2 # 0 /\ e2 + 1 <= Len(s) /\ s[e2 + 1] \in sep
              /\ e3 # 0 /\ e3 >= e2 + 3
    IN [e1 |-> e1, e2 |-> e2, e3 |-> IF ok THEN e3 ELSE 0]

\* the assignment of the fallback from the three numbers
NumericAssign(d, a, b, c) ==
    IF a > 31 THEN [year |-> a, month |-> b, day |-> c, confident |-> d.confident]
    ELSE IF c > 31
    THEN LET year == IF c >= 30 THEN 1900 + c ELSE IF c < 100 THEN 2000 + c ELSE c
         IN IF b > 12 THEN [year |-> year, month |-> a, day |-> b, confident |-> d.confident]
            ELSE IF a > 12 THEN [year |-> year, month |-> b, day |-> a, confident |-> d.confident]
            ELSE [year |-> year, month |-> b, day |-> a, confident |-> FALSE]
    ELSE d

NumericGroups(d, s, i, g) ==
    NumericAssign(d, StrToInt(SubSeq(s, i, g.e1)), StrToInt(SubSeq(s, g.e1 + 2, g.e2)),
                  StrToInt(SubSeq(s, g.e2 + 2, g.e3)))

\* the leftmost match of the pattern of separator k, tried from k on
RECURSIVE NumericFrom(_, _, _)
NumericFrom(d, s, k) ==
    IF k > Len(DATE_SEPARATORS) THEN d
    ELSE LET at == {i \in DOMAIN s : NumericAt(s, i, DATE_SEPARATORS[k]).e3 # 0}
         IN IF at = {} THEN NumericFrom(d, s, k + 1)
            ELSE NumericGroups(d, s, SetMin(at), NumericAt(s, SetMin(at), DATE_SEPARATORS[k]))

\* not all([day, month, year])
Unresolved(d) == d.day \in {NoNum, 0} \/ d.month \in {NoNum, 0} \/ d.year \in {NoNum, 0}

FallbackStep(d, text) == IF Unresolved(d) THEN NumericFrom(d, Lower(text), 1) ELSE d

DaysInMonth(year, month) ==
    IF month = 2
    THEN (IF year % 4 = 0 /\ (year % 100 # 0 \/ year % 400 = 0) THEN 29 ELSE 28)
    ELSE IF month \in {4, 6, 9, 11} THEN 30 ELSE 31

\* datetime(year, month, day) does not raise
ValidDate(d) ==
    /\ 1 <= d.year /\ d.year <= 9999
    /\ 1 <= d.month /\ d.month <= 12
    /\ 1 <= d.day /\ d.day <= DaysInMonth(d.year, d.month)

\* dt > now, dt the midnight that starts the date
After(d, now) ==
    \/ d.year > now.year
    \/ d.year = now.year /\ d.month > now.month
    \/ d.year = now.year /\ d.month = now.month /\ d.day > now.day

Pad2(n) == IF n < 10 THEN <<"0">> \o IntToStr(n) ELSE IntToStr(n)

\* dt.strftime("%d/%m/%Y"); the C library writes a year below 1000 unpadded
FormatDate(d) == Pad2(d.day) \o <<"/">> \o Pad2(d.month) \o <<"/">> \o IntToStr(d.year)

DateResult(d, text_lower, now) ==
    IF Unresolved(d) \/ ~ValidDate(d) THEN [val |-> None, confident |-> FALSE]
    ELSE [val |-> FormatDate(d),
          confident |-> /\ d.confident
                        /\ ~((After(d, now) /\ Contains(text_lower, <<"d","o","b">>))
                             \/ Contains(text_lower, <<"b","i","r","t","h">>))]

\* (DD/MM/YYYY or None, confident); now is the date datetime.now() gives
parse_date(text, now) ==
    DateResult(FallbackStep(DayStep(MonthStep(YearStep(YearWords(DateClean(text))))), text),
               Lower(text), now)

(***************************************************************************)
(* Tier 2: amounts (chat_engine.py, parse_amount)                          *)
(***************************************************************************)

\* the literal alternatives of
\* \b(rupees?|rs\.?|inr|per\s+annum|per\s+month|monthly|annually)\b:
\* the length of the literal w at i, or 0
LitLen(s, i, w) == IF MatchAt(s, i, w) THEN Len(w) ELSE 0

\* per\s+w at i: the length of the match, or 0
PerLen(s, i, w) ==
    IF MatchAt(s, i, <<"p","e","r">>) /\ i + 3 <= Len(s) /\ IsSpace(s[i + 3])
       /\ MatchAt(s, RunEnd(s, i + 3, IsSpace) + 1, w)
    THEN RunEnd(s, i + 3, IsSpace) + Len(w) - i + 1 ELSE 0

\* the lengths the alternatives match at i, in the pattern's order
AmountNoiseLens(s, i) ==
    <<LitLen(s, i, <<"r","u","p","e","e","s">>), LitLen(s, i, <<"r","u","p","e","e">>), LitLen(s, i, <<"r","s",".">>), LitLen(s, i, <<"r","s">>),
      LitLen(s, i, <<"i","n","r">>), PerLen(s, i, <<"a","n","n","u","m">>), PerLen(s, i, <<"m","o","n","t","h">>),
      LitLen(s, i, <<"m","o","n","t","h","l","y">>), LitLen(s, i, <<"a","n","n","u","a","l","l","y">>)>>

\* the length of the match of the pattern at i, or 0
AmountNoiseLen(s, i, lens) ==
    LET ok == {k \in DOMAIN lens : lens[k] > 0 /\ Boundary(s, i + lens[k])}
    IN IF Boundary(s, i) /\ ok # {} THEN lens[SetMin(ok)] ELSE 0

RECURSIVE SubAmountNoise(_, _)
SubAmountNoise(s, i) ==
    IF i > Len(s) THEN <<>>
    ELSE IF AmountNoiseLen(s, i, AmountNoiseLens(s, i)) > 0
         THEN <<" ">> \o SubAmountNoise(s, i + AmountNoiseLen(s, i, AmountNoiseLens(s, i)))
         ELSE <<s[i]>> \o SubAmountNoise(s, i + 1)

AmountClean(text_lower) ==
    Strip(SubWords(SubAmountNoise([i \in DOMAIN text_lower |->
                                      IF text_lower[i] \in (Whitespace \cup {"U+20B9", "$", ","}) THEN " " ELSE text_lower[i]], 1),
                   1, <<<<"a","r","o","u","n","d">>, <<"a","b","o","u","t">>, <<"a","p","p","r","o","x","i","m","a","t","e","l","y">>, <<"r","o","u","g","h","l","y">>>>, <<" ">>))

\* (lakh|lac|crore|k|thousand), in the pattern's order
MULTIPLIERS == <<
    [word |-> <<"l","a","k","h">>, mult |-> 100000], [word |-> <<"l","a","c">>, mult |-> 100000],
    [word |-> <<"c","r","o","r","e">>, mult |-> 10000000], [word |-> <<"k">>, mult |-> 1000],
    [word |-> <<"t","h","o","u","s","a","n","d">>, mult |-> 1000] >>

\* the multiplier of the word that starts at p, 1 when there is none
MultAt(s, p) ==
    LET hit == {k \in DOMAIN MULTIPLIERS : MatchAt(s, p, MULTIPLIERS[k].word)}
    IN IF hit = {} THEN 1 ELSE MULTIPLIERS[SetMin(hit)].mult

\* 10 ** n
RECURSIVE Pow10(_)
Pow10(n) == IF n = 0 THEN 1 ELSE 10 * Pow10(n - 1)

\* int(float(whole.frac) * mult), for the products a float holds exactly
Scaled(whole, frac, mult) ==
    StrToInt(whole) * mult + (StrToInt(frac) * mult) \div Pow10(Len(frac))

\* (\d+(?:\.\d+)?)\s*(lakh|lac|crore|k|thousand)? matched at i, e the end of
\* the first run of digits
NumericAmount(s, i, e) ==
    LET f == IF e + 2 <= Len(s) /\ s[e + 1] = "." /\ IsDigit(s[e + 2])
             THEN RunEnd(s, e + 2, IsDigit) ELSE e
        p == IF f + 1 <= Len(s) /\ IsSpace(s[f + 1]) THEN RunEnd(s, f + 1, IsSpace) + 1 ELSE f + 1
    IN Scaled(SubSeq(s, i, e), SubSeq(s, e + 2, f), MultAt(s, p))

AmountOf(clean, amount, confident) ==
    IF amount # NoNum /\ amount # 0 THEN [val |-> IntToStr(amount), confident |-> confident]
    ELSE LET at == {i \in DOMAIN clean : IsDigit(clean[i])}
         IN IF at = {} THEN [val |-> None, confident |-> FALSE]
            ELSE [val |-> IntToStr(NumericAmount(clean, SetMin(at), RunEnd(clean, SetMin(at), IsDigit))),
                  confident |-> confident]

AmountParsed(clean, confident) == AmountOf(clean, _words_to_number(clean), confident)

AmountLower(text_lower) ==
    AmountParsed(AmountClean(text_lower), ~\E w \in {<<"a","r","o","u","n","d">>, <<"a","p","p","r","o","x","i","m","a","t","e","l","y">>, <<"r","o","u","g","h","l","y">>, <<"l","a","g","b","h","a","g">>} : Contains(text_lower, w))

\* (the amount as a string of digits or None, confident)
parse_amount(text) == AmountLower(Lower(text))

(***************************************************************************)
(* Tier 2: smart parsers (chat_engine.py, parse_name, _smart_parse)        *)
(***************************************************************************)

\* str.capitalize()
Capitalize(p) == IF p = <<>> THEN <<>> ELSE <<UpperChar(p[1])>> \o Lower(Tail(p))

\* (value, confident)
parse_name(text) ==
    LET c1 == Strip(SubWords(text, 1, <<<<"m","y"," ","n","a","m","e"," ","i","s">>, <<"i"," ","a","m">>, <<"m","e","r","a"," ","n","a","a","m">>, <<"n","a","a","m"," ","h","a","i">>, <<"i","'","m">>, <<"m","u","j","h","e">>>>, <<>>))
        clean == Strip(SelectSeq(c1, LAMBDA c : IsUpperAZ(c) \/ IsLowerAZ(c) \/ IsSpace(c) \/ c = "." \/ c = "-"))
        parts == SplitWs(clean)
        single == Len(parts) = 1 /\ Len(parts[1]) <= 2
        \* str.isdigit() of a part: the parts hold no digit, they were removed
        digits == \E i \in DOMAIN parts : parts[i] # <<>> /\ \A j \in DOMAIN parts[i] : IsDigit(parts[i][j])
    IN IF clean = <<>> THEN [val |-> None, confident |-> FALSE]
       ELSE [val |-> Join(<<" ">>, [i \in DOMAIN parts |-> Capitalize(parts[i])]),
             confident |-> ~single /\ ~digits]

\* the first maximal run of digits of s, or None: re.findall(r"\d+", s)[0]
FirstDigitRun(s) ==
    LET at == {i \in DOMAIN s : IsDigit(s[i])}
    IN IF at = {} THEN None
       ELSE LET b == SetMin(at)
                e == SetMin({j \in b..Len(s) : j = Len(s) \/ ~IsDigit(s[j + 1])})
            IN SubSeq(s, b, e)

\* re.search(r"\b(\d{6})\b", s): the leftmost six digits between word boundaries
SixDigits(s) ==
    LET at == {i \in 1..(Len(s) - 5) : /\ AllIn(s, i, i + 5, IsDigit)
                                        /\ Boundary(s, i) /\ Boundary(s, i + 6)}
    IN IF at = {} THEN None ELSE SubSeq(s, SetMin(at), SetMin(at) + 5)

\* the option matching of _smart_parse for radio and checkbox groups
MatchChoice(value, children) ==
    LET val_lower == Lower(Strip(value))
        lab(i) == Lower(Strip(children[i]))
        exact == {i \in DOMAIN children : lab(i) = val_lower}
        loose == {i \in DOMAIN children :
                    \/ Contains(lab(i), val_lower) \/ Contains(val_lower, lab(i))
                    \/ val_lower = IntToStr(i)}
    IN IF exact # {} THEN [val |-> children[SetMin(exact)], confident |-> TRUE]
       ELSE IF loose # {} THEN [val |-> children[SetMin(loose)], confident |-> TRUE]
       ELSE [val |-> None, confident |-> FALSE]

\* the rest of _smart_parse, from the name fields on
SmartParseRest(name_low, value, field) ==
    IF field.data_type = "name" \/ \E w \in {<<"n","a","m","e">>, <<"f","n","a","m","e">>, <<"l","n","a","m","e">>, <<"m","n","a","m","e">>, <<"s","u","r","n","a","m","e">>} : Contains(name_low, w)
    THEN parse_name(value)
    ELSE IF \E w \in {<<"p","i","n","c","o","d","e">>, <<"p","i","n","_","c","o","d","e">>, <<"p","o","s","t","a","l">>} : Contains(name_low, w)
    THEN LET m == SixDigits(DropSpaces(value))
         IN IF m # None THEN [val |-> m, confident |-> TRUE] ELSE [val |-> None, confident |-> FALSE]
    ELSE IF field.field_type \in {"radio", "checkbox"} /\ field.children # <<>>
    THEN MatchChoice(value, field.children)
    ELSE [val |-> Strip(value), confident |-> TRUE]

\* (parsed value or None, confident)
_smart_parse(key, value, field, now) ==
    LET name_low == Lower(key)
    IN
    IF \/ field.data_type = "date" \/ Contains(name_low, <<"d","a","t","e">>)
       \/ Contains(name_low, <<"d","o","b">>) \/ Contains(name_low, <<"b","i","r","t","h">>)
    THEN parse_date(value, now)
    ELSE IF \/ field.data_type \in {"amount", "currency", "number"}
            \/ \E w \in {<<"a","m","o","u","n","t">>, <<"s","a","l","a","r","y">>, <<"i","n","c","o","m","e">>, <<"f","e","e">>, <<"p","r","i","c","e">>, <<"c","o","s","t">>, <<"v","a","l","u","e">>} : Contains(name_low, w)
    THEN LET pa == parse_amount(value)
             num == FirstDigitRun(DropChars(value, {","}))
         IN IF Truthy(pa.val) THEN pa
            ELSE IF num # None THEN [val |-> num, confident |-> FALSE]
            ELSE SmartParseRest(name_low, value, field)
    ELSE SmartParseRest(name_low, value, field)

(***************************************************************************)
(* Form schemas.  A FieldSpec is a record; depends_on is a sequence of no  *)
(* or one clause [field, values], values holding the one declared value or *)
(* the declared list; children is the sequence of option labels;           *)
(* validation_type is validation_rules["type"].                            *)
(***************************************************************************)

Field(name, ftype, label, required, dtype, vtype, dep, children) ==
    [field_name |-> name, field_type |-> ftype, semantic_label |-> label,
     is_required |-> required, data_type |-> dtype, validation_type |-> vtype,
     depends_on |-> dep, children |-> children]

\* field_map.get(key, {}): the empty dict, whose lookups give None
NoField == Field(None, "none", <<>>, FALSE, "none", "none", <<>>, <<>>)

k_whatsapp_phone == <<"_","w","h","a","t","s","a","p","p","_","p","h","o","n","e">>

NA == <<"N","/","A">>
SKIPPED == <<"S","K","I","P","P","E","D">>
WA_SKIP == <<"_","_","S","K","I","P","_","_">>

\* a loan form: the employer is asked only of salaried applicants
FormLoan ==
    [form_title |-> <<"L","o","a","n"," ","A","p","p","l","i","c","a","t","i","o","n">>,
     fields |-> <<
        Field(<<"e","m","p","l","o","y","m","e","n","t","_","t","y","p","e">>, "radio", <<"E","m","p","l","o","y","m","e","n","t"," ","T","y","p","e">>, TRUE, "text", "none", <<>>,
              <<<<"S","a","l","a","r","i","e","d">>, <<"S","e","l","f","-","e","m","p","l","o","y","e","d">>>>),
        Field(<<"r","e","m","a","r","k","s">>, "text", <<"R","e","m","a","r","k","s">>, FALSE, "text", "none", <<>>, <<>>),
        Field(<<"e","m","p","l","o","y","e","r">>, "text", <<"E","m","p","l","o","y","e","r">>, TRUE, "text", "none",
              <<[field |-> <<"e","m","p","l","o","y","m","e","n","t","_","t","y","p","e">>, values |-> <<<<"S","a","l","a","r","i","e","d">>>>]>>, <<>>) >>]

\* identity forms: every field is claimed by a Tier-1 validator
FormKyc ==
    [form_title |-> <<"K","Y","C">>,
     fields |-> <<
        Field(<<"p","a","n">>, "text", <<"P","A","N">>, TRUE, "text", "none", <<>>, <<>>),
        Field(<<"m","o","b","i","l","e">>, "text", <<"M","o","b","i","l","e"," ","N","u","m","b","e","r">>, TRUE, "phone", "phone", <<>>, <<>>),
        Field(<<"e","m","a","i","l">>, "email", <<"E","m","a","i","l"," ","A","d","d","r","e","s","s">>, FALSE, "email", "email", <<>>, <<>>) >>]

FormIds ==
    [form_title |-> <<"B","u","s","i","n","e","s","s"," ","R","e","g","i","s","t","r","a","t","i","o","n">>,
     fields |-> <<
        Field(<<"a","a","d","h","a","a","r">>, "text", <<"A","a","d","h","a","a","r">>, TRUE, "text", "none", <<>>, <<>>),
        Field(<<"g","s","t","i","n">>, "text", <<"G","S","T","I","N">>, TRUE, "text", "none", <<>>, <<>>),
        Field(<<"i","f","s","c">>, "text", <<"I","F","S","C">>, TRUE, "text", "none", <<>>, <<>>),
        Field(<<"t","a","n">>, "text", <<"T","A","N">>, FALSE, "text", "none", <<>>, <<>>) >>]

\* a form with a date and an amount
FormDates ==
    [form_title |-> <<"E","n","r","o","l","m","e","n","t">>,
     fields |-> <<
        Field(<<"d","o","b">>, "text", <<"D","a","t","e"," ","o","f"," ","B","i","r","t","h">>, TRUE, "date", "none", <<>>, <<>>),
        Field(<<"s","a","l","a","r","y">>, "text", <<"M","o","n","t","h","l","y"," ","S","a","l","a","r","y">>, FALSE, "amount", "none", <<>>, <<>>) >>]

\* the name fields of MOCK_FORM (test_chat.py), with or without the middle name
FormNames(with_middle) ==
    [form_title |-> <<"B","a","n","k"," ","A","c","c","o","u","n","t"," ","O","p","e","n","i","n","g"," ","F","o","r","m">>,
     fields |->
        << Field(<<"f","i","r","s","t","_","n","a","m","e">>, "text", <<"F","i","r","s","t"," ","N","a","m","e">>, TRUE, "name", "none", <<>>, <<>>) >>
        \o (IF with_middle
            THEN << Field(<<"m","i","d","d","l","e","_","n","a","m","e">>, "text", <<"M","i","d","d","l","e"," ","N","a","m","e">>, FALSE, "name", "none", <<>>, <<>>) >>
            ELSE <<>>)
        \o << Field(<<"l","a","s","t","_","n","a","m","e">>, "text", <<"L","a","s","t"," ","N","a","m","e">>, TRUE, "name", "none", <<>>, <<>>) >>]

FieldNames(form_schema) == {form_schema.fields[i].field_name : i \in DOMAIN form_schema.fields}

\* field_map.get(key, {})
FieldOf(form_schema, key) ==
    IF key \in FieldNames(form_schema)
    THEN form_schema.fields[SetMax({i \in DOMAIN form_schema.fields : form_schema.fields[i].field_name = key})]
    ELSE NoField

(***************************************************************************)
(* Progress and conditional fields (chat_engine.py)                        *)
(***************************************************************************)

\* val in (None, "", "N/A", "SKIPPED")
UNFILLED == {None, <<>>, NA, SKIPPED}

\* a progress function that would count the fields still open
ProgressOfRemaining(form_schema, collected) ==
    LET required_fields == {i \in DOMAIN form_schema.fields : form_schema.fields[i].is_required}
        total == Cardinality(required_fields)
        done == Cardinality({i \in required_fields :
                    Get(collected, form_schema.fields[i].field_name) \notin UNFILLED})
    IN [total_required |-> total, completed |-> done, remaining |-> total - done,
        percent |-> IF total # 0 THEN ((total - done) * 100) \div total ELSE 100]

\* int(x) of the quotient n/d, n, d >= 0
_compute_progress(form_schema, collected) ==
    LET required_fields == {i \in DOMAIN form_schema.fields : form_schema.fields[i].is_required}
        total == Cardinality(required_fields)
        done == Cardinality({i \in required_fields :
                    Get(collected, form_schema.fields[i].field_name) \notin UNFILLED})
    IN [total_required |-> total, completed |-> done, remaining |-> total - done,
        percent |-> IF total # 0 THEN (done * 100) \div total ELSE 100]

_get_next_unfilled_field(form_schema, collected) ==
    LET open == {i \in DOMAIN form_schema.fields :
                    /\ form_schema.fields[i].is_required
                    /\ Get(collected, form_schema.fields[i].field_name) \in UNFILLED}
    IN IF open = {} THEN None ELSE form_schema.fields[SetMin(open)].field_name

_should_skip_field(field, collected) ==
    IF field.depends_on = <<>> THEN FALSE
    ELSE LET depends == field.depends_on[1]
             parent_val == GetOr(collected, depends.field, <<>>)
         IN Lower(PyStr(parent_val)) \notin {Lower(PyStr(depends.values[i])) : i \in DOMAIN depends.values}

\* str.title() of name.replace("_", " ")
TitleOfName(name) ==
    [i \in DOMAIN name |->
        IF name[i] = "_" THEN " "
        ELSE IF i = 1 \/ ~(IsUpperAZ(name[i - 1]) \/ IsLowerAZ(name[i - 1]))
             THEN UpperChar(name[i]) ELSE LowerChar(name[i])]

SUMMARY_HEADER_HI == <<"U+0906","U+092A","U+0928","U+0947"," ","U+091C","U+094B"," ","U+091C","U+093E","U+0928","U+0915","U+093E","U+0930","U+0940"," ","U+0926","U+0940"," ","U+0939","U+0948",","," ","U+0935","U+094B"," ","U+092F","U+0939","U+093E","U+0901"," ","U+0939","U+0948",":">> \o <<"\n", "\n">>
SUMMARY_HEADER_EN == <<"H","e","r","e","'","s"," ","a"," ","s","u","m","m","a","r","y"," ","o","f"," ","e","v","e","r","y","t","h","i","n","g"," ","y","o","u","'","v","e"," ","s","h","a","r","e","d",":">> \o <<"\n", "\n">>

_build_confirmation_summary(form_schema, collected, lang) ==
    LET shown == SelectSeq(form_schema.fields, LAMBDA f : Get(collected, f.field_name) \notin UNFILLED)
        label(f) == IF Truthy(f.semantic_label) THEN f.semantic_label ELSE TitleOfName(f.field_name)
        lines == [i \in DOMAIN shown |->
                    <<"U+2022"," ">> \o label(shown[i]) \o <<":"," ">> \o PyStr(Get(collected, shown[i].field_name))]
    IN (IF lang = "hi" THEN SUMMARY_HEADER_HI ELSE SUMMARY_HEADER_EN)
       \o Join(<<"\n">>, lines)
       \o (IF lang = "hi" THEN (<<"\n", "\n">> \o <<"U+0915","U+094D","U+092F","U+093E"," ","U+092F","U+0939"," ","U+0938","U+092C"," ","U+0938","U+0939","U+0940"," ","U+0939","U+0948","?"," ","'","U+0939","U+093E","U+0901","'"," ","U+0915","U+0939","U+0947","U+0902"," ","U+0924","U+094B"," ","U+092E","U+0948","U+0902"," ","U+092B","U+093C","U+0949","U+0930","U+094D","U+092E"," ","U+092A","U+0942","U+0930","U+093E"," ","U+0915","U+0930"," ","U+0926","U+0942","U+0901","U+0917","U+093E","U+0964">>) ELSE (<<"\n", "\n">> \o <<"D","o","e","s"," ","e","v","e","r","y","t","h","i","n","g"," ","l","o","o","k"," ","c","o","r","r","e","c","t","?"," ","S","a","y"," ","'","y","e","s","'"," ","t","o"," ","f","i","n","a","l","i","s","e"," ","t","h","e"," ","f","o","r","m",".">>))

_fallback_reply(lang) == IF lang = "hi" THEN <<"U+092E","U+093E","U+092B","U+093C"," ","U+0915","U+0930","U+0947","U+0902",","," ","U+0915","U+0941","U+091B"," ","U+0917","U+0921","U+093C","U+092C","U+0921","U+093C"," ","U+0939","U+094B"," ","U+0917","U+0908","U+0964"," ","U+0915","U+094D","U+092F","U+093E"," ","U+0906","U+092A"," ","U+092B","U+093F","U+0930"," ","U+0938","U+0947"," ","U+092C","U+0924","U+093E"," ","U+0938","U+0915","U+0924","U+0947"," ","U+0939","U+0948","U+0902","?">> ELSE <<"S","o","r","r","y",","," ","s","o","m","e","t","h","i","n","g"," ","w","e","n","t"," ","w","r","o","n","g"," ","o","n"," ","m","y"," ","e","n","d","."," ","C","o","u","l","d"," ","y","o","u"," ","s","a","y"," ","t","h","a","t"," ","a","g","a","i","n","?">>

\* the closing message of the confirmation turn
ClosingReply(lang) == IF lang = "hi" THEN <<"U+092C","U+0939","U+0941","U+0924"," ","U+092C","U+0922","U+093C","U+093F","U+092F","U+093E","!"," ","U+1F389"," ","U+0906","U+092A","U+0915","U+093E"," ","U+092B","U+093C","U+0949","U+0930","U+094D","U+092E"," ","U+0938","U+092B","U+0932","U+0924","U+093E","U+092A","U+0942","U+0930","U+094D","U+0935","U+0915"," ","U+092D","U+0930"," ","U+0917","U+092F","U+093E"," ","U+0939","U+0948","U+0964">> ELSE <<"A","l","l"," ","d","o","n","e","!"," ","U+1F389"," ","Y","o","u","r"," ","f","o","r","m"," ","h","a","s"," ","b","e","e","n"," ","s","u","c","c","e","s","s","f","u","l","l","y"," ","c","o","m","p","l","e","t","e","d",".">>

\* the refusal to skip a required field
SkipBlockReply(field_obj, target_field, lang) ==
    LET label == IF field_obj = NoField THEN target_field ELSE field_obj.semantic_label
    IN IF lang = "hi"
       THEN <<"U+092E","U+093E","U+092B","U+093C"," ","U+0915","U+0930","U+0947","U+0902",","," ","'">> \o label \o <<"'"," ","U+090F","U+0915"," ","U+091C","U+093C","U+0930","U+0942","U+0930","U+0940"," ","U+091C","U+093E","U+0928","U+0915","U+093E","U+0930","U+0940"," ","U+0939","U+0948"," ","U+2014"," ","U+0907","U+0938","U+0947"," ","U+091B","U+094B","U+0921","U+093C","U+093E"," ","U+0928","U+0939","U+0940","U+0902"," ","U+091C","U+093E"," ","U+0938","U+0915","U+0924","U+093E","U+0964"," ","U+0915","U+094D","U+092F","U+093E"," ","U+0906","U+092A"," ","U+092F","U+0939"," ","U+092C","U+093E","U+0926"," ","U+092E","U+0947","U+0902"," ","U+092C","U+0924","U+093E"," ","U+0938","U+0915","U+0924","U+0947"," ","U+0939","U+0948","U+0902","?">>
       ELSE <<"'">> \o label \o <<"'"," ","i","s"," ","a"," ","r","e","q","u","i","r","e","d"," ","f","i","e","l","d"," ","a","n","d"," ","c","a","n","'","t"," ","b","e"," ","s","k","i","p","p","e","d","."," ","C","o","u","l","d"," ","y","o","u"," ","p","r","o","v","i","d","e"," ","i","t",","," ","e","v","e","n"," ","i","f"," ","a","p","p","r","o","x","i","m","a","t","e","?">>

(***************************************************************************)
(* Intent detection (chat_engine.py)                                       *)
(***************************************************************************)

confirm_words_en == {<<"y","e","s">>, <<"c","o","r","r","e","c","t">>, <<"o","k">>, <<"o","k","a","y">>, <<"r","i","g","h","t">>, <<"s","u","r","e">>, <<"c","o","n","f","i","r","m">>,
    <<"s","u","b","m","i","t">>, <<"d","o","n","e">>, <<"h","a","a","n">>, <<"h","a">>, <<"s","a","h","i">>}

\* any(w in user_message.lower() for w in confirm_words_en)
IsAffirmative(user_message) ==
    LET low == Lower(user_message)
    IN \E w \in confirm_words_en : Contains(low, w)

CORRECTION_PHRASES_EN == {<<"w","a","i","t">>, <<"a","c","t","u","a","l","l","y">>, <<"s","o","r","r","y">>, <<"n","o",",">>, <<"i"," ","m","e","a","n","t">>, <<"i"," ","m","e","a","n">>,
    <<"n","o","t">>, <<"w","r","o","n","g">>, <<"m","i","s","t","a","k","e">>, <<"c","o","r","r","e","c","t"," ","i","t">>, <<"c","h","a","n","g","e"," ","i","t">>,
    <<"u","p","d","a","t","e">>, <<"i","t"," ","s","h","o","u","l","d"," ","b","e">>, <<"s","h","o","u","l","d"," ","b","e">>, <<"r","e","p","l","a","c","e">>}
CORRECTION_PHRASES_HI == {<<"r","u","k","o">>, <<"n","a","h","i">>, <<"g","a","l","a","t">>, <<"s","a","h","i"," ","k","a","r","o">>, <<"b","a","d","l","o">>, <<"m","a","t","l","a","b">>,
    <<"w","o","h"," ","n","a","h","i">>, <<"a","c","t","u","a","l","l","y">>}

_is_correction(user_message) ==
    LET low == Lower(user_message)
    IN \/ \E p \in CORRECTION_PHRASES_EN : Contains(low, p)
       \/ \E p \in CORRECTION_PHRASES_HI : Contains(user_message, p)

skip_phrases_en == {<<"d","o","n","'","t"," ","k","n","o","w">>, <<"n","o","t"," ","s","u","r","e">>, <<"s","k","i","p">>, <<"l","e","a","v","e"," ","i","t">>, <<"n","o"," ","i","d","e","a">>, <<"c","a","n","t"," ","s","a","y">>,
    <<"c","a","n","'","t"," ","s","a","y">>, <<"l","a","t","e","r">>, <<"n","e","x","t">>}
skip_phrases_hi == {<<"U+0928","U+0939","U+0940","U+0902"," ","U+092A","U+0924","U+093E">>, <<"U+092A","U+0924","U+093E"," ","U+0928","U+0939","U+0940","U+0902">>, <<"U+091B","U+094B","U+0921","U+093C"," ","U+0926","U+094B">>, <<"U+092C","U+093E","U+0926"," ","U+092E","U+0947","U+0902">>, <<"s","k","i","p"," ","U+0915","U+0930","U+094B">>}

_detect_skip_intent(user_message) ==
    LET msg_lower == Strip(Lower(user_message))
    IN \/ \E p \in skip_phrases_en : Contains(msg_lower, p)
       \/ \E p \in skip_phrases_hi : Contains(user_message, p)

\* [6-9]\d{9} at position i of t
MobileAt(t, i) == i >= 1 /\ i + 9 <= Len(t) /\ t[i] \in SixToNine /\ AllIn(t, i + 1, i + 9, IsDigit)

\* the ten digits of the first pattern that matches, "__SKIP__", or None
_extract_phone_from_message(text) ==
    LET t == DropChars(text, {" ", "-"})
        lower == Lower(text)
        \* \+91([6-9]\d{9})
        p1 == {i \in DOMAIN t : i + 2 <= Len(t) /\ SubSeq(t, i, i + 2) = <<"+","9","1">> /\ MobileAt(t, i + 3)}
        \* \b91([6-9]\d{9})\b
        p2 == {i \in DOMAIN t : /\ i + 1 <= Len(t) /\ SubSeq(t, i, i + 1) = <<"9","1">> /\ MobileAt(t, i + 2)
                                /\ Boundary(t, i) /\ Boundary(t, i + 12)}
        \* \b([6-9]\d{9})\b
        p3 == {i \in DOMAIN t : MobileAt(t, i) /\ Boundary(t, i) /\ Boundary(t, i + 10)}
    IN IF p1 # {} THEN SubSeq(t, SetMin(p1) + 3, SetMin(p1) + 12)
       ELSE IF p2 # {} THEN SubSeq(t, SetMin(p2) + 2, SetMin(p2) + 11)
       ELSE IF p3 # {} THEN SubSeq(t, SetMin(p3), SetMin(p3) + 9)
       ELSE IF \E w \in {<<"s","k","i","p">>, <<"n","o">>, <<"n","a","h","i">>, <<"n","a","h","i","n">>, <<"n","o","p","e">>, <<"l","a","t","e","r">>, <<"d","o","n","t">>, <<"d","o","n","'","t">>} : Contains(lower, w) THEN WA_SKIP
       ELSE None

(***************************************************************************)
(* Extraction post-processing (chat_engine.py).  The extraction of the     *)
(* model is an ordered dict: a sequence of [k, v] with distinct keys.      *)
(***************************************************************************)

Put(d, k, v) == [x \in (DOMAIN d) \cup {k} |-> IF x = k THEN v ELSE d[x]]

ToDict(items) ==
    [k \in {items[i].k : i \in DOMAIN items} |->
        items[SetMax({i \in DOMAIN items : items[i].k = k})].v]

\* next((f for f in fields if f["field_name"] == k), {})
FirstFieldOf(form_schema, key) ==
    IF key \in FieldNames(form_schema)
    THEN form_schema.fields[SetMin({i \in DOMAIN form_schema.fields : form_schema.fields[i].field_name = key})]
    ELSE NoField

CleanValue(k, v, form_schema) ==
    LET plain == /\ FirstFieldOf(form_schema, k).field_type = "checkbox"
                 /\ FirstFieldOf(form_schema, k).children = <<>>
    IN IF IsStr(v) /\ Lower(v) \in {<<"y","e","s">>, <<"t","r","u","e">>, <<"1">>, <<"h","a","a","n">>, <<"h","a">>, <<"U+2713">>} THEN (IF plain THEN PyTrue ELSE v)
       ELSE IF IsStr(v) /\ Lower(v) \in {<<"n","o">>, <<"f","a","l","s","e">>, <<"0">>, <<"n","a","h","i">>, <<"n","a">>, <<"U+2610">>} THEN (IF plain THEN PyFalse ELSE v)
       ELSE v

_clean_extracted(extracted, form_schema) ==
    LET kept == SelectSeq(extracted, LAMBDA e :
                    /\ e.v \notin {None, <<>>, NA, <<"n","u","l","l">>, <<"u","n","d","e","f","i","n","e","d">>}
                    /\ (e.k \in FieldNames(form_schema) \/ StartsWith(e.k, <<"_">>)))
    IN [i \in DOMAIN kept |-> [k |-> kept[i].k, v |-> CleanValue(kept[i].k, kept[i].v, form_schema)]]

\* the names of the schema, in its order, that a keyword list selects
_find_fields(form_schema, keywords, data_type) ==
    LET hit(f) ==
            \/ \E kw \in keywords : Contains(Lower(f.field_name), kw)
            \/ /\ data_type # "none" /\ f.data_type = data_type
               /\ \E kw \in keywords : Contains(Lower(f.semantic_label \o f.field_name), kw)
        sel == SelectSeq(form_schema.fields, hit)
    IN [i \in DOMAIN sel |-> sel[i].field_name]

title_prefixes == <<<<"d","r",".">>, <<"m","r",".">>, <<"m","r","s",".">>, <<"m","s",".">>, <<"p","r","o","f",".">>, <<"e","r",".">>, <<"a","d","v",".">>>>

\* s.rstrip(".")
RECURSIVE RStripDots(_)
RStripDots(s) == IF s # <<>> /\ s[Len(s)] = "." THEN RStripDots(SubSeq(s, 1, Len(s) - 1)) ELSE s

\* collected.get(k) in (None, "", "N/A")
EMPTY3 == {None, <<>>, NA}

_smart_name_split(extracted, form_schema, collected, force_update) ==
    LET base == ToDict(extracted)
        first_name_keys == _find_fields(form_schema, {<<"f","i","r","s","t","_","n","a","m","e">>, <<"f","n","a","m","e">>, <<"g","i","v","e","n","_","n","a","m","e">>}, "name")
        middle_name_keys == _find_fields(form_schema, {<<"m","i","d","d","l","e","_","n","a","m","e">>, <<"m","n","a","m","e">>, <<"m","i","d","d","l","e">>}, "name")
        last_name_keys == _find_fields(form_schema, {<<"l","a","s","t","_","n","a","m","e">>, <<"l","n","a","m","e">>, <<"s","u","r","n","a","m","e">>, <<"f","a","m","i","l","y","_","n","a","m","e">>}, "name")
        full_name_keys == _find_fields(form_schema, {<<"f","u","l","l","_","n","a","m","e">>, <<"n","a","m","e">>, <<"a","p","p","l","i","c","a","n","t","_","n","a","m","e">>, <<"c","a","n","d","i","d","a","t","e","_","n","a","m","e">>}, "name")
        title_keys == _find_fields(form_schema, {<<"t","i","t","l","e">>, <<"s","a","l","u","t","a","t","i","o","n">>, <<"p","r","e","f","i","x">>}, "none")
        cand == {i \in DOMAIN extracted :
                    /\ \/ FieldOf(form_schema, extracted[i].k).data_type = "name"
                       \/ Contains(Lower(extracted[i].k), <<"n","a","m","e">>)
                    /\ IsStr(extracted[i].v)
                    /\ Len(SplitWs(extracted[i].v)) >= 1}
    IN IF cand = {} THEN base
       ELSE
       LET name_source_key == extracted[SetMin(cand)].k
           name_value == Strip(extracted[SetMin(cand)].v)
           pref == {i \in DOMAIN title_prefixes : StartsWith(Lower(name_value), title_prefixes[i])}
           plen == IF pref = {} THEN 0 ELSE Len(title_prefixes[SetMin(pref)])
           title == RStripDots(SubSeq(name_value, 1, plen))
           name_clean == IF pref = {} THEN name_value ELSE Strip(SubSeq(name_value, plen + 1, Len(name_value)))
           parts == SplitWs(name_clean)
           both == first_name_keys # <<>> /\ last_name_keys # <<>>
           first_key == first_name_keys[1]
           last_key == last_name_keys[1]
           has_middle == middle_name_keys # <<>>
           middle_key == middle_name_keys[1]
           e1 == IF both /\ (Get(collected, first_key) \in EMPTY3 \/ force_update)
                 THEN IF Len(parts) = 2
                      THEN Put(Put(base, first_key, parts[1]), last_key, parts[2])
                      ELSE IF Len(parts) = 3 /\ has_middle
                      THEN Put(Put(Put(base, first_key, parts[1]), middle_key, parts[2]), last_key, parts[3])
                      ELSE IF Len(parts) >= 3 /\ ~has_middle
                      THEN Put(Put(base, first_key, parts[1]), last_key, Join(<<" ">>, Tail(parts)))
                      ELSE IF Len(parts) = 1
                      THEN Put(base, first_key, parts[1])
                      ELSE base
                 ELSE base
           e2 == IF /\ both /\ title # <<>> /\ title_keys # <<>>
                    /\ (Get(collected, title_keys[1]) \in EMPTY3 \/ force_update)
                 THEN Put(e1, title_keys[1], title)
                 ELSE e1
           e3 == IF /\ full_name_keys # <<>>
                    /\ (Get(collected, full_name_keys[1]) \in EMPTY3 \/ force_update)
                    /\ full_name_keys[1] # name_source_key
                 THEN Put(e2, full_name_keys[1], name_value)
                 ELSE e2
       IN e3

\* a validation loop that lets a value through when Tier 1 rejects it
ValidateOneKeepsRejected(key, value, form_schema, now) ==
    LET field == FieldOf(form_schema, key)
        hv == _hard_validate(key, value, field)
        sp == _smart_parse(key, value, field, now)
    IN IF ~IsStr(value) THEN [what |-> "keep", val |-> value, confident |-> TRUE, err |-> NoErr]
       ELSE IF hv.err # NoErr THEN [what |-> "keep", val |-> value, confident |-> FALSE, err |-> hv.err]
       ELSE IF hv.val # value THEN [what |-> "keep", val |-> hv.val, confident |-> TRUE, err |-> NoErr]
       ELSE IF sp.val = None THEN [what |-> "drop", val |-> None, confident |-> FALSE, err |-> NoErr]
       ELSE [what |-> "keep", val |-> sp.val, confident |-> sp.confident, err |-> NoErr]

\* one key of the validation loop of run_chat_turn:
\* what ("keep", "error", "drop"), the value kept, and the confidence
ValidateOne(key, value, form_schema, now) ==
    LET field == FieldOf(form_schema, key)
        hv == _hard_validate(key, value, field)
        sp == _smart_parse(key, value, field, now)
    IN IF ~IsStr(value) THEN [what |-> "keep", val |-> value, confident |-> TRUE, err |-> NoErr]
       ELSE IF hv.err # NoErr THEN [what |-> "error", val |-> None, confident |-> TRUE, err |-> hv.err]
       ELSE IF hv.val # value THEN [what |-> "keep", val |-> hv.val, confident |-> TRUE, err |-> NoErr]
       ELSE IF sp.val = None THEN [what |-> "drop", val |-> None, confident |-> FALSE, err |-> NoErr]
       ELSE [what |-> "keep", val |-> sp.val, confident |-> sp.confident, err |-> NoErr]

\* the loop that discards the extracted values of suppressed fields: the
\* fields in schema order from i on, each tested against the merge of
\* collected and what is left of extracted at that point
RECURSIVE DiscardSuppressed(_, _, _, _)
DiscardSuppressed(form_schema, i, collected, extracted) ==
    IF i > Len(form_schema.fields) THEN extracted
    ELSE IF _should_skip_field(form_schema.fields[i], Merge(collected, extracted))
         THEN DiscardSuppressed(form_schema, i + 1, collected,
                                Without(extracted, {form_schema.fields[i].field_name}))
         ELSE DiscardSuppressed(form_schema, i + 1, collected, extracted)

all_required_done(form_schema, merged) ==
    \A i \in DOMAIN form_schema.fields :
        LET f == form_schema.fields[i]
        IN (f.is_required /\ ~_should_skip_field(f, merged)) => Get(merged, f.field_name) \notin UNFILLED

(***************************************************************************)
(* One chat turn (chat_engine.py, run_chat_turn).  The turn suspends once, *)
(* at the call of the external model: TurnBefore is the code up to the     *)
(* call, TurnAfter the code after it.  The session is the dict passed in,  *)
(* which the turn mutates in place; history is session["chat_history"]     *)
(* itself, so an append to it is a change of the session.                  *)
(***************************************************************************)

UserEntry(m) == [role |-> "user", content |-> m]
BotEntry(m) == [role |-> "assistant", content |-> m]

\* the language of the turn after the automatic detection:
\* "if auto_lang and auto_lang != lang: lang = auto_lang"
TurnLang(user_message, lang) ==
    LET auto_lang == detect_language(user_message)
    IN IF auto_lang # NoLang /\ auto_lang # lang THEN auto_lang ELSE lang

TurnResult(reply, extracted, confirmations, low_confidence, is_complete, history, detected_lang, last_asked_field, progress) ==
    [reply |-> reply, extracted |-> extracted, confirmations |-> confirmations,
     low_confidence |-> low_confidence, is_complete |-> is_complete,
     updated_history |-> history, detected_lang |-> detected_lang,
     last_asked_field |-> last_asked_field, progress |-> progress]

\* the turn takes the confirmation branch and returns without the model
TakesConfirm(user_message, session) == session.awaiting /\ IsAffirmative(user_message)

\* a confirmation turn that would record the closing reply only
ConfirmTurnWithoutUserEntry(user_message, session, form_schema, lang) ==
    LET reply == ClosingReply(TurnLang(user_message, lang))
        history == Append(session.chat_history, BotEntry(reply))
    IN [result |-> TurnResult(reply, EmptyDict, <<>>, {}, TRUE, history, NoLang, None,
                              _compute_progress(form_schema, session.collected)),
        session |-> [session EXCEPT !.chat_history = history]]

\* the confirmation turn: the result and the session as the turn leaves it
ConfirmTurn(user_message, session, form_schema, lang) ==
    LET reply == ClosingReply(TurnLang(user_message, lang))
        history == session.chat_history \o <<UserEntry(user_message), BotEntry(reply)>>
    IN [result |-> TurnResult(reply, EmptyDict, <<>>, {}, TRUE, history, NoLang, None,
                              _compute_progress(form_schema, session.collected)),
        session |-> [session EXCEPT !.chat_history = history]]

\* the session when the turn reaches the model call
TurnBefore(user_message, session) ==
    [session EXCEPT !.awaiting = FALSE,
                    !.chat_history = Append(@, UserEntry(user_message))]

\* the response of the model read: the arguments of its tool call, or the
\* fallbacks when there is none or its arguments do not parse
ModelOutput(resp, lang) ==
    LET tool_ok == resp.kind = "tool"
    IN [reply |-> IF tool_ok THEN resp.reply
                  ELSE IF Truthy(resp.content) THEN resp.content ELSE _fallback_reply(lang),
        extracted |-> IF tool_ok THEN resp.extracted ELSE <<>>,
        confirmations |-> IF tool_ok THEN resp.confirmations ELSE <<>>,
        is_complete |-> tool_ok /\ resp.is_complete,
        model_lang |-> IF tool_ok THEN resp.detected_lang ELSE NoLang]

\* lang and detected_lang once the response is read; lang1 is the language
\* after the automatic detection
TurnLangs(auto_lang, lang1, model_lang, session_lang) ==
    LET switch == model_lang # NoLang /\ model_lang # lang1
    IN [lang |-> IF switch THEN model_lang ELSE lang1,
        detected_lang |-> IF switch THEN model_lang
                          ELSE IF auto_lang # NoLang /\ auto_lang # session_lang THEN auto_lang
                          ELSE NoLang]

\* the validation loop over the extraction after the name split
ValidationOutcome(vres) ==
    LET kept == {k \in DOMAIN vres : vres[k].what = "keep"}
    IN [validated |-> [k \in kept |-> vres[k].val],
        low_confidence |-> {k \in kept : ~vres[k].confident},
        hard_validation_errors |-> {<<k, vres[k].err>> : k \in {x \in DOMAIN vres : vres[x].what = "error"}}]

ValidateSplit(split, form_schema, now) ==
    ValidationOutcome([k \in DOMAIN split |-> ValidateOne(k, split[k], form_schema, now)])

\* the post-processing pipeline: clean, split names, validate
PostProcess(extracted, form_schema, collected, user_message, now) ==
    ValidateSplit(_smart_name_split(_clean_extracted(extracted, form_schema), form_schema,
                                    collected, _is_correction(user_message)),
                  form_schema, now)

\* a skip handling that marks the field whether it is required or not
SkipStepMarksRequired(validated, reply, skip_intent, target_field, field_obj, form_schema, collected, lang) ==
    LET skip_case == skip_intent /\ DOMAIN validated = {} /\ target_field # None
    IN [skip_case |-> skip_case,
        target_field |-> target_field,
        reply |-> reply,
        extracted |-> DiscardSuppressed(form_schema, 1, collected,
                         IF skip_case THEN Put(validated, target_field, NA) ELSE validated)]

\* skip handling, then the discard of the values of suppressed fields
SkipStep(validated, reply, skip_intent, target_field, field_obj, form_schema, collected, lang) ==
    LET skip_case == skip_intent /\ DOMAIN validated = {} /\ target_field # None
    IN [skip_case |-> skip_case,
        target_field |-> target_field,
        reply |-> IF skip_case /\ field_obj.is_required
                  THEN SkipBlockReply(field_obj, target_field, lang) ELSE reply,
        extracted |-> DiscardSuppressed(form_schema, 1, collected,
                         IF skip_case /\ ~field_obj.is_required
                         THEN Put(validated, target_field, NA) ELSE validated)]

\* the completion gate, the phone capture and the return
Finish(user_message, session, form_schema, last_asked_field, wa_configured, out, langs, post, skip, merged, phone_from_msg) ==
    LET collected == session.collected
        gate == out.is_complete /\ all_required_done(form_schema, merged) /\ ~session.awaiting
        is_complete == out.is_complete /\ ~gate
        capture == /\ is_complete /\ wa_configured /\ ~Truthy(session.whatsapp_phone)
                   /\ Truthy(phone_from_msg)
        extracted == IF capture /\ phone_from_msg # WA_SKIP
                     THEN Put(skip.extracted, k_whatsapp_phone, phone_from_msg) ELSE skip.extracted
        history == Append(session.chat_history,
                          BotEntry(IF gate THEN _build_confirmation_summary(form_schema, merged, langs.lang)
                                   ELSE skip.reply))
    IN [result |-> TurnResult(history[Len(history)].content, extracted, out.confirmations,
                              post.low_confidence, is_complete, history, langs.detected_lang,
                              last_asked_field,
                              _compute_progress(form_schema, Merge(collected, extracted))),
        session |-> [session EXCEPT !.awaiting = (gate \/ @),
                                    !.whatsapp_phone = IF capture THEN phone_from_msg ELSE @,
                                    !.chat_history = history],
        signalled |-> out.is_complete,
        gate |-> gate,
        skip_case |-> skip.skip_case,
        target_field |-> skip.target_field,
        lang |-> langs.lang,
        merged |-> merged,
        raw |-> out.extracted,
        validated |-> post.validated,
        hard_validation_errors |-> post.hard_validation_errors]

TurnTail(user_message, session, form_schema, last_asked_field, wa_configured, out, langs, post, skip) ==
    Finish(user_message, session, form_schema, last_asked_field, wa_configured,
           out, langs, post, skip, Merge(session.collected, skip.extracted),
           _extract_phone_from_message(user_message))

TurnSkip(user_message, session, form_schema, last_asked_field, wa_configured, out, langs, post, target_field) ==
    TurnTail(user_message, session, form_schema, last_asked_field, wa_configured, out, langs, post,
             SkipStep(post.validated, out.reply, _detect_skip_intent(user_message), target_field,
                      FieldOf(form_schema, target_field), form_schema, session.collected, langs.lang))

TurnRead(user_message, session, form_schema, last_asked_field, wa_configured, out, auto_lang, lang1, now) ==
    TurnSkip(user_message, session, form_schema, last_asked_field, wa_configured, out,
             TurnLangs(auto_lang, lang1, out.model_lang, session.lang),
             PostProcess(out.extracted, form_schema, session.collected, user_message, now),
             _get_next_unfilled_field(form_schema, session.collected))

TurnDetect(user_message, session, form_schema, last_asked_field, resp, wa_configured, auto_lang, lang1, now) ==
    TurnRead(user_message, session, form_schema, last_asked_field, wa_configured,
             ModelOutput(resp, lang1), auto_lang, lang1, now)

\* the code after the model call; session is the session at the call, resp
\* the response of the model, last_asked_field the value computed on entry,
\* now the date of the clock
TurnAfter(user_message, session, form_schema, lang0, last_asked_field, resp, wa_configured, now) ==
    TurnDetect(user_message, session, form_schema, last_asked_field, resp, wa_configured,
               detect_language(user_message), TurnLang(user_message, lang0), now)

(***************************************************************************)
(* The /api/chat route after the turn (api/routes/chat.py, chat) and the   *)
(* progress helper of the routes (api/helpers.py, progress)                *)
(***************************************************************************)

\* round(n / d * 100) for the quotients the forms produce: ties go to even
RoundPct(n, d) ==
    LET q == (n * 100) \div d
        r == (n * 100) % d
    IN IF 2 * r < d THEN q ELSE IF 2 * r > d THEN q + 1 ELSE IF q % 2 = 0 THEN q ELSE q + 1

\* (filled, total) of api/helpers.py, as the percentage the routes store
RoutePct(session, form_schema) ==
    LET total == Len(form_schema.fields)
        n == Cardinality({k \in DOMAIN session.collected : session.collected[k] \notin UNFILLED})
        filled == IF total # 0 THEN (IF n < total THEN n ELSE total) ELSE 0
    IN IF total # 0 THEN RoundPct(filled, total) ELSE 0

\* the session the route saves after a turn that returned result
ChatMerge(session, result, form_schema) ==
    LET wa_phone == Get(result.extracted, k_whatsapp_phone)
        extracted == Without(result.extracted, {k_whatsapp_phone})
        old == session.collected
        collected == [k \in (DOMAIN old) \cup (DOMAIN extracted) |->
                        IF k \in DOMAIN extracted
                           /\ ~(extracted[k] = SKIPPED /\ Get(old, k) \notin EMPTY3)
                        THEN extracted[k] ELSE old[k]]
        s1 == [session EXCEPT
                !.whatsapp_phone = IF Truthy(wa_phone) THEN wa_phone ELSE @,
                !.collected = collected,
                !.chat_history = result.updated_history,
                !.lang = IF result.detected_lang # NoLang THEN result.detected_lang ELSE @,
                !.last_asked_field = IF Truthy(result.last_asked_field) THEN result.last_asked_field ELSE @,
                !.status = IF result.is_complete THEN "completed" ELSE @]
    IN [s1 EXCEPT !.progress = RoutePct(s1, form_schema)]

\* the route starts the generate-and-send task after saving
StartsWaTask(session, wa_configured) ==
    Truthy(session.whatsapp_phone) /\ session.whatsapp_phone # WA_SKIP /\ wa_configured

(***************************************************************************)
(* Inputs.  A scenario fixes the form, whether a delivery channel is       *)
(* configured, and the sets the requests and the model draw from.          *)
(***************************************************************************)

MaxTurns == 3
MaxWaTasks == 1

KV(k, v) == [k |-> k, v |-> v]

\* what the external model may answer: a tool call (its extraction an
\* ordered dict, its completion signal, its detected language) ...
Tool(e, c, l) ==
    [kind |-> "tool", reply |-> <<"G","o","t"," ","i","t",".">>, extracted |-> e, confirmations |-> <<>>,
     is_complete |-> c, detected_lang |-> l, content |-> None]

\* ... or a tool call whose arguments do not parse ("bad_json"), or whose
\* arguments parse to JSON that is not an object ("not_object": a list, a
\* string, null), or no tool call ("no_tool"), with or without free text
NoTool(k, t) ==
    [kind |-> k, reply |-> <<>>, extracted |-> <<>>, confirmations |-> <<>>,
     is_complete |-> FALSE, detected_lang |-> NoLang, content |-> t]

\* the answers that extract one key, with each of its candidate values
OneKey(cand) == UNION {{Tool(<<KV(k, v)>>, FALSE, NoLang) : v \in cand[k]} : k \in DOMAIN cand}

\* the date of the clock when a turn runs
Date(y, m, d) == [year |-> y, month |-> m, day |-> d]
Today == Date(2026, 11, 4)

Scenario(form, wa, msgs, req_langs, responses, opens, fills, phones, upload_keys) ==
    [form |-> form, wa_configured |-> wa, msgs |-> msgs, req_langs |-> req_langs,
     responses |-> responses, opens |-> opens, fills |-> fills, phones |-> phones,
     upload_keys |-> upload_keys, nows |-> {Today}, in_flight |-> 1]

\* the model signals completion early or late, the user confirms or not
ScnGate == Scenario(FormLoan, FALSE, {<<"y","e","s">>, <<"h","e","l","l","o">>}, {""},
                    {Tool(<<>>, FALSE, NoLang),
                     Tool(<<KV(<<"e","m","p","l","o","y","m","e","n","t","_","t","y","p","e">>, <<"s","e","l","f">>)>>, TRUE, NoLang),
                     Tool(<<KV(<<"e","m","p","l","o","y","m","e","n","t","_","t","y","p","e">>, <<"s","a","l","a","r","i","e","d">>)>>, TRUE, NoLang),
                     Tool(<<KV(<<"e","m","p","l","o","y","m","e","n","t","_","t","y","p","e">>, <<"s","a","l","a","r","i","e","d">>), KV(<<"e","m","p","l","o","y","e","r">>, <<"A","c","m","e">>)>>, TRUE, NoLang)},
                    {}, {}, {}, {})

\* a parent and its dependent field, one at a time
ScnDep == Scenario(FormLoan, FALSE, {<<"h","e","l","l","o">>}, {""},
                   {Tool(<<KV(<<"e","m","p","l","o","y","m","e","n","t","_","t","y","p","e">>, <<"s","a","l","a","r","i","e","d">>)>>, FALSE, NoLang),
                    Tool(<<KV(<<"e","m","p","l","o","y","m","e","n","t","_","t","y","p","e">>, <<"s","e","l","f">>)>>, FALSE, NoLang),
                    Tool(<<KV(<<"e","m","p","l","o","y","e","r">>, <<"A","c","m","e">>)>>, FALSE, NoLang),
                    Tool(<<KV(<<"e","m","p","l","o","y","e","r">>, SKIPPED)>>, FALSE, NoLang),
                    Tool(<<KV(<<"e","m","p","l","o","y","e","r">>, <<" ","N","/","A"," ">>)>>, FALSE, NoLang)},
                   {}, BOOLEAN, {}, {})

\* the user asks to skip, or asks for a change
ScnSkip == Scenario(FormLoan, FALSE, {<<"s","k","i","p"," ","i","t">>, <<"c","h","a","n","g","e"," ","i","t">>}, {""},
                    {Tool(<<>>, FALSE, NoLang),
                     Tool(<<>>, TRUE, NoLang),
                     Tool(<<KV(<<"e","m","p","l","o","y","m","e","n","t","_","t","y","p","e">>, <<"s","e","l","f">>)>>, FALSE, NoLang)},
                    {}, {}, {}, {})

\* a conversation in Hindi
ScnHindi == Scenario(FormLoan, FALSE, {<<"U+092A","U+0924","U+093E"," ","U+0928","U+0939","U+0940","U+0902">>, <<"y","e","s">>}, {"", "en"},
                     {Tool(<<>>, FALSE, "en"),
                      Tool(<<KV(<<"e","m","p","l","o","y","m","e","n","t","_","t","y","p","e">>, <<"s","e","l","f">>)>>, TRUE, "hi")},
                     {"hi"}, {}, {}, {})

\* a delivery channel is configured
ScnWa == Scenario(FormLoan, TRUE, {<<"s","k","i","p",","," ","9","8","7","6","5","4","3","2","1","0">>, <<"y","e","s",","," ","9","8","7","6","5","4","3","2","1","0">>}, {""},
                  {Tool(<<>>, TRUE, NoLang),
                   Tool(<<KV(<<"e","m","p","l","o","y","m","e","n","t","_","t","y","p","e">>, <<"s","e","l","f">>)>>, TRUE, NoLang)},
                  {}, {}, {}, {})

\* identity fields, and keys that are not fields of the form; the model may
\* also fail to call the tool
ScnKyc == Scenario(FormKyc, FALSE, {<<"h","e","l","l","o">>}, {""},
                   OneKey(
           (<<"p","a","n">> :> {<<"a","b","c","d","e","1","2","3","4","f">>, <<"A","B","C","D","E","1","2","3","F">>, PyTrue})
           @@ (<<"m","o","b","i","l","e">> :> {<<"+","9","1"," ","9","8","7","6","5"," ","4","3","2","1","0">>, <<"1","2","3","4","5">>})
           @@ (<<"e","m","a","i","l">> :> {<<"R","a","h","u","l","@","E","x","a","m","p","l","e",".","c","o","m">>, <<"r","a","h","u","l","k","u","m","a","r",".","s","h","a","r","m","a">>})
           @@ (<<"n","i","c","k","n","a","m","e">> :> {<<"R","a","h","u","l">>})
           @@ (<<"_","n","o","t","e">> :> {<<"v","i","p">>}))
                   \cup {NoTool(k, t) : k \in {"bad_json", "no_tool"}, t \in {None, <<"N","o","t","e","d",".">>}}
                   \cup {NoTool("not_object", <<"N","o","t","e","d",".">>)},
                   {}, {}, {}, {})

ScnIds == Scenario(FormIds, FALSE, {<<"h","e","l","l","o">>}, {""}, OneKey(
           (<<"a","a","d","h","a","a","r">> :> {<<"1","2","3","4"," ","5","6","7","8"," ","9","0","1","2">>, <<"1","2","3","4">>})
           @@ (<<"g","s","t","i","n">> :> {<<"2","2","a","b","c","d","e","1","2","3","4","f","1","z","5">>, <<"2","2","A","B","C","D","E">>})
           @@ (<<"i","f","s","c">> :> {<<"s","b","i","n","0","0","0","1","2","3","4">>, <<"S","B","I","N","0","0","0","1","2","3","4">>, <<"S","B","I","N","1","0","0","1","2","3","4">>})
           @@ (<<"t","a","n">> :> {<<"a","b","c","d","1","2","3","4","5","e">>, <<"A","B","C","D","1","2","3","4">>})), {}, {}, {}, {})

\* the client also uploads a file and registers a phone number for delivery;
\* the delivery channel is configured
ScnRoutes == Scenario(FormKyc, TRUE, {<<"h","e","l","l","o">>}, {""},
                      {Tool(<<KV(<<"p","a","n">>, <<"a","b","c","d","e","1","2","3","4","f">>)>>, FALSE, NoLang)},
                      {}, {}, {<<"9","8","7","6","5","4","3","2","1","0">>}, {<<"e","m","a","i","l">>})

\* dates and amounts in words; the clock is before or after a date given
ScnDates == [Scenario(FormDates, FALSE, {<<"h","e","l","l","o">>}, {""}, OneKey(
           (<<"d","o","b">> :> {<<"1","5","t","h"," ","M","a","r","c","h"," ","1","9","9","0">>, <<"1","5"," ","m","a","r","c","h"," ","1","9","9","0">>, <<"5","/","6","/","8","9">>, <<"1","5","/","0","3","/","1","9","9","0">>, <<"d","o","b"," ","1"," ","j","a","n"," ","2","0","2","8">>, <<"n","e","x","t"," ","t","u","e","s","d","a","y">>})
           @@ (<<"s","a","l","a","r","y">> :> {<<"f","i","f","t","y"," ","t","h","o","u","s","a","n","d"," ","r","u","p","e","e","s">>, <<"a","r","o","u","n","d"," ","2"," ","l","a","k","h">>})), {}, {}, {}, {})
               EXCEPT !.nows = {Today, Date(2030, 1, 1)}]

\* the client sends a second message while the first is being answered
ScnRace == [Scenario(FormKyc, FALSE, {<<"h","e","l","l","o">>}, {""},
                     {Tool(<<KV(<<"p","a","n">>, <<"a","b","c","d","e","1","2","3","4","f">>)>>, FALSE, NoLang),
                      Tool(<<KV(<<"m","o","b","i","l","e">>, <<"9","8","7","6","5","4","3","2","1","0">>)>>, FALSE, NoLang)},
                     {}, {}, {}, {})
              EXCEPT !.in_flight = 2]

\* names: the model files a full name under one key; the user may correct
ScnNames(with_middle) ==
    Scenario(FormNames(with_middle), FALSE,
             IF with_middle THEN {<<"h","e","l","l","o">>} ELSE {<<"h","e","l","l","o">>, <<"s","o","r","r","y",","," ","w","r","o","n","g">>}, {""},
             {Tool(<<KV(<<"f","i","r","s","t","_","n","a","m","e">>, <<"R","a","h","u","l"," ","K","u","m","a","r"," ","S","h","a","r","m","a">>)>>, FALSE, NoLang),
              Tool(<<KV(<<"l","a","s","t","_","n","a","m","e">>, <<"R","a","h","u","l"," ","K","u","m","a","r"," ","S","h","a","r","m","a">>)>>, FALSE, NoLang),
              Tool(<<KV(<<"f","i","r","s","t","_","n","a","m","e">>, <<"R","a","h","u","l"," ","S","h","a","r","m","a">>)>>, FALSE, NoLang),
              Tool(<<KV(<<"f","i","r","s","t","_","n","a","m","e">>, <<"U+0930","U+093E","U+0939","U+0941","U+0932"," ","S","h","a","r","m","a">>)>>, FALSE, NoLang)},
             {}, {}, {}, {})

\* a chain of dependent fields, the grandchild before the child in the schema:
\* the provident fund account is asked of members, membership of the salaried;
\* the username is an e-mail address
ScnChain ==
    Scenario([form_title |-> <<"P","a","y","r","o","l","l">>,
              fields |-> <<
                Field(<<"e","m","p","l","o","y","m","e","n","t","_","t","y","p","e">>, "radio", <<"E","m","p","l","o","y","m","e","n","t"," ","T","y","p","e">>, TRUE, "text", "none", <<>>,
                      <<<<"S","a","l","a","r","i","e","d">>, <<"S","e","l","f","-","e","m","p","l","o","y","e","d">>>>),
                Field(<<"p","f","_","a","c","c","o","u","n","t">>, "text", <<"P","r","o","v","i","d","e","n","t"," ","F","u","n","d"," ","A","c","c","o","u","n","t">>, FALSE, "text", "none",
                      <<[field |-> <<"p","f","_","m","e","m","b","e","r">>, values |-> <<<<"Y","e","s">>>>]>>, <<>>),
                Field(<<"p","f","_","m","e","m","b","e","r">>, "radio", <<"P","r","o","v","i","d","e","n","t"," ","F","u","n","d"," ","M","e","m","b","e","r">>, FALSE, "text", "none",
                      <<[field |-> <<"e","m","p","l","o","y","m","e","n","t","_","t","y","p","e">>, values |-> <<<<"S","a","l","a","r","i","e","d">>>>]>>,
                      <<<<"Y","e","s">>, <<"N","o">>>>),
                Field(<<"u","s","e","r","n","a","m","e">>, "email", <<"U","s","e","r","n","a","m","e"," ","(","e","-","m","a","i","l"," ","a","d","d","r","e","s","s",")">>, FALSE, "text", "none", <<>>, <<>>) >>],
             FALSE, {<<"h","e","l","l","o">>}, {""},
             {Tool(<<KV(<<"e","m","p","l","o","y","m","e","n","t","_","t","y","p","e">>, e), KV(<<"p","f","_","m","e","m","b","e","r">>, <<"y","e","s">>), KV(<<"p","f","_","a","c","c","o","u","n","t">>, <<"M","H","1","2","3">>)>>,
                   FALSE, NoLang) : e \in {<<"s","a","l","a","r","i","e","d">>, <<"s","e","l","f">>}}
             \cup {Tool(<<KV(<<"p","f","_","a","c","c","o","u","n","t">>, <<"M","H","1","2","3">>)>>, FALSE, NoLang),
                   Tool(<<KV(<<"u","s","e","r","n","a","m","e">>, <<"r","a","h","u","l","@","e","x","a","m","p","l","e",".","c","o","m">>)>>, FALSE, NoLang),
                   Tool(<<KV(<<"u","s","e","r","n","a","m","e">>, <<"R","a","h","u","l","@","E","x","a","m","p","l","e",".","c","o","m">>)>>, FALSE, NoLang)},
             {}, {}, {}, {})

Scenarios == {ScnGate, ScnDep, ScnSkip, ScnHindi, ScnWa, ScnKyc, ScnIds, ScnRoutes, ScnDates, ScnRace,
              ScnNames(FALSE), ScnNames(TRUE), ScnChain}

(***************************************************************************)
(* State                                                                   *)
(***************************************************************************)

VARIABLES
    scn,        \* the scenario, fixed by Init
    store,      \* the persisted session (store.py, the session's JSON file)
    req,        \* the /api/chat requests in flight: the position and locals of each
    last,       \* the chat turn that finished last, cleared when the next begins
    turns,      \* chat turns started
    wa_queued,  \* generate-and-send tasks created and not yet started
    wa_running  \* the sessions loaded by started tasks that await the PDF

vars == <<scn, store, req, last, turns, wa_queued, wa_running>>

\* the session create_session persists; absent keys: awaiting_summary_confirm
\* reads as False, whatsapp_phone and filled_pdf_path as None, progress_pct
\* is written by the upload route only (-1 stands for the absent key)
NewSession ==
    [status |-> "active", collected |-> EmptyDict, chat_history |-> <<>>, progress |-> 0,
     lang |-> "en", last_asked_field |-> None, awaiting |-> FALSE, whatsapp_phone |-> None,
     filled_pdf |-> FALSE, uploaded_files |-> {}, progress_pct |-> -1]

NoResult == TurnResult(<<>>, EmptyDict, <<>>, {}, FALSE, <<>>, NoLang, None,
                       _compute_progress(FormLoan, EmptyDict))

IdleReq == [pc |-> "idle", msg |-> <<>>, lang |-> "", last_asked_field |-> None,
            pre |-> NewSession, session |-> NewSession]

NoTurn == [kind |-> "none", msg |-> <<>>, pre |-> NewSession, result |-> NoResult,
           session |-> NewSession, signalled |-> FALSE, gate |-> FALSE, skip_case |-> FALSE,
           target_field |-> None, lang |-> "", merged |-> EmptyDict,
           raw |-> <<>>, validated |-> EmptyDict, hard_validation_errors |-> {},
           resp |-> NoTool("none", None)]

\* the /api/chat handlers suspended at the model call: the route takes no
\* lock, each request works on the session it loaded
InFlight == {r \in DOMAIN req : req[r].pc = "model"}

\* the client sends one more message: it keeps at most scn.in_flight waiting
MaySend == turns < MaxTurns /\ Cardinality(InFlight) < scn.in_flight

Init ==
    /\ scn \in Scenarios
    /\ store = NewSession
    /\ req = [r \in {1, 2} |-> IdleReq]
    /\ last = NoTurn
    /\ turns = 0
    /\ wa_queued = 0
    /\ wa_running = {}

\* the cap on tasks in flight: a handler that would start one waits
TaskRoom(session) ==
    StartsWaTask(session, scn.wa_configured) => wa_queued + Cardinality(wa_running) < MaxWaTasks

QueueTask(session) ==
    wa_queued' = IF StartsWaTask(session, scn.wa_configured) THEN wa_queued + 1 ELSE wa_queued

\* msg.lang or session.get("lang", "en")
ReqLang(l, session) == IF l # "" THEN l ELSE session.lang

(***************************************************************************)
(* POST /api/chat                                                          *)
(***************************************************************************)

\* the whole handler when the turn is the confirmation of the summary
ChatConfirm ==
    /\ MaySend
    /\ \E m \in scn.msgs, l \in scn.req_langs :
        /\ TakesConfirm(m, store)
        /\ \E t \in {ConfirmTurn(m, store, scn.form, ReqLang(l, store))} :
           \E saved \in {ChatMerge(t.session, t.result, scn.form)} :
             /\ TaskRoom(saved)
             /\ store' = saved
             /\ QueueTask(saved)
             /\ last' = [NoTurn EXCEPT !.kind = "confirm", !.msg = m, !.pre = store,
                                       !.result = t.result, !.session = t.session,
                                       !.lang = TurnLang(m, ReqLang(l, store))]
    /\ turns' = turns + 1
    /\ UNCHANGED <<scn, req, wa_running>>

\* the handler up to the call of the model
ChatStart ==
    /\ MaySend
    /\ \E m \in scn.msgs, l \in scn.req_langs :
        /\ ~TakesConfirm(m, store)
        /\ req' = [req EXCEPT ![SetMin(DOMAIN req \ InFlight)] =
                      [pc |-> "model", msg |-> m, lang |-> ReqLang(l, store),
                       last_asked_field |-> _get_next_unfilled_field(scn.form, store.collected),
                       pre |-> store, session |-> TurnBefore(m, store)]]
    /\ last' = NoTurn
    /\ turns' = turns + 1
    /\ UNCHANGED <<scn, store, wa_queued, wa_running>>

\* the model answers: the rest of the turn, the merge and the save
ChatModelReturn ==
    \E r \in InFlight, resp \in scn.responses, now \in scn.nows :
        /\ resp.kind # "not_object"
        /\ \E t \in {TurnAfter(req[r].msg, req[r].session, scn.form, req[r].lang,
                                req[r].last_asked_field, resp, scn.wa_configured, now)} :
           \E saved \in {ChatMerge(t.session, t.result, scn.form)} :
           /\ TaskRoom(saved)
           /\ store' = saved
           /\ QueueTask(saved)
           /\ last' = [kind |-> "model", msg |-> req[r].msg, pre |-> req[r].pre, result |-> t.result,
                       session |-> t.session, signalled |-> t.signalled, gate |-> t.gate,
                       skip_case |-> t.skip_case, target_field |-> t.target_field,
                       lang |-> t.lang, merged |-> t.merged, raw |-> t.raw,
                       validated |-> t.validated,
                       hard_validation_errors |-> t.hard_validation_errors, resp |-> resp]
        /\ req' = [req EXCEPT ![r] = IdleReq]
        /\ UNCHANGED <<scn, turns, wa_running>>

\* the call of the model raises: the turn raises, the route answers 500
\* and saves nothing
ChatModelRaise ==
    \E r \in InFlight :
        /\ last' = [NoTurn EXCEPT !.kind = "raised", !.msg = req[r].msg, !.pre = req[r].pre,
                                  !.session = req[r].session]
        /\ req' = [req EXCEPT ![r] = IdleReq]
        /\ UNCHANGED <<scn, store, turns, wa_queued, wa_running>>

\* the model answers a tool call whose arguments are not an object: args.get
\* raises AttributeError, which the except clause of the parse does not
\* catch; the turn raises, the route answers 500 and saves nothing
ChatModelMalformed ==
    \E r \in InFlight, resp \in scn.responses :
        /\ resp.kind = "not_object"
        /\ last' = [NoTurn EXCEPT !.kind = "crashed", !.msg = req[r].msg, !.pre = req[r].pre,
                                  !.session = req[r].session, !.resp = resp]
        /\ req' = [req EXCEPT ![r] = IdleReq]
        /\ UNCHANGED <<scn, store, turns, wa_queued, wa_running>>
(***************************************************************************)
(* The other handlers that write the session                               *)
(***************************************************************************)

\* the fixed opening of get_opening_message when the model call fails
OpeningFallback(form_schema, lang) ==
    LET total == IntToStr(Cardinality({i \in DOMAIN form_schema.fields : form_schema.fields[i].is_required}))
    IN IF lang = "hi"
       THEN <<"U+0928","U+092E","U+0938","U+094D","U+0924","U+0947","!"," ","U+1F64F"," ","U+092E","U+0948","U+0902"," ","U+0906","U+092A","U+0915","U+0940"," ","'">> \o form_schema.form_title \o <<"'"," ","U+092D","U+0930","U+0928","U+0947"," ","U+092E","U+0947","U+0902"," ","U+092E","U+0926","U+0926"," ","U+0915","U+0930","U+0942","U+0901","U+0917","U+093E","U+0964"," ","U+0915","U+0941","U+0932"," ">>
            \o total \o <<" ","U+091C","U+093C","U+0930","U+0942","U+0930","U+0940"," ","U+091C","U+093E","U+0928","U+0915","U+093E","U+0930","U+093F","U+092F","U+093E","U+0901"," ","U+092D","U+0930","U+0928","U+0940"," ","U+0939","U+0948","U+0902","U+0964"," ","U+0915","U+094D","U+092F","U+093E"," ","U+0939","U+092E"," ","U+0936","U+0941","U+0930","U+0942"," ","U+0915","U+0930","U+0947","U+0902","?">>
       ELSE <<"H","i"," ","t","h","e","r","e","!"," ","U+1F44B"," ","I","'","m"," ","h","e","r","e"," ","t","o"," ","h","e","l","p"," ","y","o","u"," ","f","i","l","l"," ","o","u","t"," ","t","h","e"," ","'">> \o form_schema.form_title
            \o <<"'","."," ","W","e"," ","h","a","v","e"," ">> \o total \o <<" ","r","e","q","u","i","r","e","d"," ","f","i","e","l","d","s"," ","t","o"," ","c","o","m","p","l","e","t","e","."," ","S","h","a","l","l"," ","w","e"," ","g","e","t"," ","s","t","a","r","t","e","d","?">>

\* POST /api/chat/open (api/routes/chat.py, chat_open)
ChatOpen ==
    /\ InFlight = {}
    /\ \E l \in scn.opens :
       \E opening \in {<<"W","e","l","c","o","m","e","!">>, OpeningFallback(scn.form, l)} :
        store' = [store EXCEPT !.chat_history = <<BotEntry(opening)>>, !.lang = l]
    /\ UNCHANGED <<scn, req, last, turns, wa_queued, wa_running>>

\* POST /api/sessions/{id}/fill (api/routes/fill.py, fill_form), the PDF
\* rendered; when the renderer raises the route saves nothing
Fill ==
    /\ InFlight = {}
    /\ \E partial \in scn.fills :
        store' = [store EXCEPT !.filled_pdf = TRUE,
                               !.status = IF ~partial THEN "completed" ELSE @]
    /\ UNCHANGED <<scn, req, last, turns, wa_queued, wa_running>>

\* POST /api/sessions/{id}/upload-file (api/routes/fill.py, upload_session_file)
UploadFile ==
    /\ InFlight = {}
    /\ \E field_name \in scn.upload_keys :
        LET s1 == [store EXCEPT !.collected = Put(@, field_name, <<"F","I","L","E","_","U","P","L","O","A","D","E","D">>),
                                !.uploaded_files = @ \cup {field_name}]
        IN store' = [s1 EXCEPT !.progress_pct = RoutePct(s1, scn.form)]
    /\ UNCHANGED <<scn, req, last, turns, wa_queued, wa_running>>

\* POST /api/sessions/{id}/whatsapp (api/routes/whatsapp.py, send_whatsapp)
Whatsapp ==
    /\ InFlight = {}
    /\ \E phone \in scn.phones, l \in scn.req_langs :
        store' = [store EXCEPT !.whatsapp_phone = phone,
                               !.lang = IF l # "" THEN l ELSE @]
    /\ UNCHANGED <<scn, req, last, turns, wa_queued, wa_running>>

\* the generate-and-send task of the chat route starts: it loads the
\* session and awaits the PDF
WaTaskLoad ==
    /\ wa_queued > 0
    /\ wa_queued' = wa_queued - 1
    /\ wa_running' = IF Truthy(store.whatsapp_phone) /\ store.whatsapp_phone # WA_SKIP
                     THEN wa_running \cup {store} ELSE wa_running
    /\ UNCHANGED <<scn, store, req, last, turns>>

\* the PDF is rendered: the task saves the session it loaded
WaTaskSave ==
    /\ \E sess \in wa_running :
        /\ store' = [sess EXCEPT !.filled_pdf = TRUE]
        /\ wa_running' = wa_running \ {sess}
    /\ UNCHANGED <<scn, req, last, turns, wa_queued>>

\* the renderer raises: the task logs and ends
WaTaskFail ==
    /\ \E sess \in wa_running : wa_running' = wa_running \ {sess}
    /\ UNCHANGED <<scn, store, req, last, turns, wa_queued>>

Next ==
    \/ ChatConfirm
    \/ ChatStart
    \/ ChatModelReturn
    \/ ChatModelRaise
    \/ ChatModelMalformed
    \/ ChatOpen
    \/ Fill
    \/ UploadFile
    \/ Whatsapp
    \/ WaTaskLoad
    \/ WaTaskSave
    \/ WaTaskFail

Spec == Init /\ [][Next]_vars

(***************************************************************************)
(* Properties                                                              *)
(***************************************************************************)

IsSummary(reply) == StartsWith(reply, SUMMARY_HEADER_EN) \/ StartsWith(reply, SUMMARY_HEADER_HI)
IsClosing(reply) == reply \in {<<"A","l","l"," ","d","o","n","e","!"," ","U+1F389"," ","Y","o","u","r"," ","f","o","r","m"," ","h","a","s"," ","b","e","e","n"," ","s","u","c","c","e","s","s","f","u","l","l","y"," ","c","o","m","p","l","e","t","e","d",".">>, <<"U+092C","U+0939","U+0941","U+0924"," ","U+092C","U+0922","U+093C","U+093F","U+092F","U+093E","!"," ","U+1F389"," ","U+0906","U+092A","U+0915","U+093E"," ","U+092B","U+093C","U+0949","U+0930","U+094D","U+092E"," ","U+0938","U+092B","U+0932","U+0924","U+093E","U+092A","U+0942","U+0930","U+094D","U+0935","U+0915"," ","U+092D","U+0930"," ","U+0917","U+092F","U+093E"," ","U+0939","U+0948","U+0964">>}

\* some assistant entry of a history satisfies P
Said(history, P(_)) ==
    \E i \in DOMAIN history : history[i].role = "assistant" /\ P(history[i].content)

\* what the route persists of the turn that finished last
Persisted == ChatMerge(last.session, last.result, scn.form)

\* C1: a turn returns is_complete = true only when it started with the
\* session awaiting the confirmation of the summary and its message is
\* affirmative; no turn that goes through the model returns it, whatever the
\* model signals.
C1_CompleteOnlyOnConfirmation ==
    last.result.is_complete =>
        /\ last.kind = "confirm"
        /\ last.pre.awaiting
        /\ IsAffirmative(last.msg)

\* C2: when the model signals completion, every required field that is not
\* suppressed is filled in the merge, and the session is not awaiting (it never
\* is when the model has been called), the turn returns is_complete = false,
\* replies with the summary and leaves the session awaiting; once a summary
\* has been given, is_complete = true comes only from an affirmative turn.
C2_SummaryBeforeCompletion ==
    /\ (last.kind = "model" /\ last.signalled /\ all_required_done(scn.form, last.merged))
          => /\ ~last.result.is_complete
             /\ last.result.reply = _build_confirmation_summary(scn.form, last.merged, last.lang)
             /\ last.session.awaiting
             /\ Persisted.awaiting
    /\ (last.result.is_complete /\ Said(last.pre.chat_history, IsSummary))
          => last.kind = "confirm" /\ IsAffirmative(last.msg)

\* C3: the confirmation turn resets the confirmation flag, so that a
\* confirmation turn that follows an earlier one has a summary between them.
C3_CompleteOncePerSummary ==
    last.kind = "confirm" =>
        /\ ~last.session.awaiting
        /\ LET h == last.pre.chat_history
               closings == {i \in DOMAIN h : h[i].role = "assistant" /\ IsClosing(h[i].content)}
           IN closings # {} =>
                \E j \in DOMAIN h : /\ j > SetMax(closings)
                                    /\ h[j].role = "assistant"
                                    /\ IsSummary(h[j].content)

\* C4: no required field is persisted with the value "SKIPPED".
C4_NoRequiredFieldSkipped ==
    \A i \in DOMAIN scn.form.fields :
        scn.form.fields[i].is_required
            => Get(store.collected, scn.form.fields[i].field_name) # SKIPPED

\* C5: a field with a depends_on clause is in the persisted collected map
\* only while collected satisfies the clause.
C5_DependentOnlyWhileConditionHolds ==
    \A i \in DOMAIN scn.form.fields :
        LET f == scn.form.fields[i]
        IN (f.depends_on # <<>> /\ f.field_name \in DOMAIN store.collected)
              => ~_should_skip_field(f, store.collected)

\* C6: the persisted status becomes "completed" only in a step that is the
\* affirmative confirmation of a summary.
C6_CompletedOnlyByConfirmation ==
    [][(store.status # "completed" /\ store'.status = "completed")
          => (last'.kind = "confirm" /\ turns' = turns + 1)]_vars

\* the case of C7: the message asks to skip, no value survived validation,
\* and the next unfilled field is required
SkipOfRequired ==
    /\ last.kind = "model"
    /\ _detect_skip_intent(last.msg)
    /\ last.validated = EmptyDict
    /\ _get_next_unfilled_field(scn.form, last.pre.collected) # None
    /\ FieldOf(scn.form, _get_next_unfilled_field(scn.form, last.pre.collected)).is_required

SkipRefusal ==
    SkipBlockReply(FieldOf(scn.form, _get_next_unfilled_field(scn.form, last.pre.collected)),
                   _get_next_unfilled_field(scn.form, last.pre.collected), last.lang)

NextUnfilledOfAny(form_schema, collected) ==
    LET open == {i \in DOMAIN form_schema.fields :
                    Get(collected, form_schema.fields[i].field_name) \in UNFILLED}
    IN IF open = {} THEN None ELSE form_schema.fields[SetMin(open)].field_name

\* C8: when the message asks to skip, no value was extracted, and the next
\* unfilled field is optional, the turn returns that field with "N/A".
C8_OptionalSkipMarked ==
    LET next == NextUnfilledOfAny(scn.form, last.pre.collected)
    IN (/\ last.kind = "model"
        /\ _detect_skip_intent(last.msg)
        /\ last.validated = EmptyDict
        /\ next # None
        /\ ~FieldOf(scn.form, next).is_required)
          => Get(last.result.extracted, next) = NA

\* the keys of the model's extraction whose string value Tier 1 rejects
Rejected ==
    {last.raw[i].k : i \in {j \in DOMAIN last.raw :
        /\ last.raw[j].k \in FieldNames(scn.form)
        /\ IsStr(last.raw[j].v)
        /\ _hard_validate(last.raw[j].k, last.raw[j].v, FieldOf(scn.form, last.raw[j].k)).err # NoErr}}

\* C9: a field whose extracted value is a string that fails its Tier-1 check
\* is absent from the extraction the turn returns, and its collected value is
\* what it was before the turn.  (Tier 1 takes strings; the loop does not
\* hand it a value that is not one.)
C9_Tier1FailureNotPersisted ==
    last.kind = "model" =>
        \A k \in Rejected :
            /\ k \notin DOMAIN last.result.extracted
            /\ Get(Persisted.collected, k) = Get(last.pre.collected, k)

C9_Witness ==
    /\ last.kind = "model"
    /\ \E k \in Rejected : Get(last.pre.collected, k) \notin UNFILLED

\* C10: the step in which the call of the model raises leaves the session
\* as it was before the turn: the persisted session is not written, and the
\* object passed in has the collected map, the history, the confirmation
\* flag and the status it had.
C10_RaiseLeavesSessionUnchanged ==
    [][(last.kind # "raised" /\ last'.kind = "raised")
          => /\ store' = store
             /\ last'.session.collected = last'.pre.collected
             /\ last'.session.chat_history = last'.pre.chat_history
             /\ last'.session.awaiting = last'.pre.awaiting
             /\ last'.session.status = last'.pre.status]_vars

\* the reply the code gives when the response carries no usable tool call
NoToolReply(resp, lang) ==
    IF Truthy(resp.content) THEN resp.content ELSE _fallback_reply(lang)

\* C11: when the response of the model has no tool call, or a tool call
\* whose arguments cannot be read, the turn does not raise; its reply is the
\* free text of the response, or the fixed apology in the language of the
\* turn when there is none; nothing is extracted, the result is not complete
\* and the session is not awaiting confirmation.
C11_NoToolCallTolerated ==
    last.resp.kind \in {"bad_json", "not_object", "no_tool"} =>
        /\ last.kind = "model"
        /\ last.result.reply = NoToolReply(last.resp, last.lang)
        /\ last.result.extracted = EmptyDict
        /\ ~last.result.is_complete
        /\ ~last.session.awaiting

\* C12: when the session is awaiting the confirmation of the summary and
\* the message is affirmative, the turn ends without a call of the model:
\* the result is complete with nothing extracted, collected is as it was,
\* and chat_history has grown by exactly the user message followed by the
\* closing reply, in the turn's result, its session and the persisted one.
C12_ConfirmTurnFinalises ==
    /\ last.kind \in {"model", "raised", "crashed"} =>
           ~(last.pre.awaiting /\ IsAffirmative(last.msg))
    /\ last.kind = "confirm" =>
        LET history == last.pre.chat_history
                       \o <<UserEntry(last.msg), BotEntry(ClosingReply(last.lang))>>
        IN /\ last.pre.awaiting /\ IsAffirmative(last.msg)
           /\ last.result.is_complete
           /\ last.result.extracted = EmptyDict
           /\ last.session.collected = last.pre.collected
           /\ Persisted.collected = last.pre.collected
           /\ last.result.updated_history = history
           /\ last.session.chat_history = history
           /\ Persisted.chat_history = history

\* a confirmation turn on a session that holds answers, closed in Hindi
C12_Witness ==
    /\ last.kind = "confirm"
    /\ last.pre.collected # EmptyDict
    /\ last.lang = "hi"
    /\ store.chat_history = last.session.chat_history

\* a /api/chat request that was waiting for the model finishes and saves
ChatSaves ==
    /\ \E r \in InFlight : req'[r].pc = "idle"
    /\ last'.kind = "model"

\* C13: no update of a chat turn is lost, also when two requests on the
\* session overlap: when a request saves, every entry of the persisted
\* chat_history and every key of the persisted collected that another turn
\* wrote is still in the session it persists.
C13_NoLostUpdate ==
    [][ChatSaves =>
        /\ Len(store.chat_history) <= Len(store'.chat_history)
        /\ SubSeq(store'.chat_history, 1, Len(store.chat_history)) = store.chat_history
        /\ \A k \in DOMAIN store.collected : k \in DOMAIN store'.collected]_vars

(***************************************************************************)
(* The progress function on its own: _compute_progress applied to every    *)
(* collected map that merges over the fields of a form build.  The         *)
(* quotient of the code is a float; int() of it is the integer quotient    *)
(* for every total below 50.                                               *)
(***************************************************************************)

\* a form without a required field
FormNotes ==
    [form_title |-> <<"F","e","e","d","b","a","c","k">>,
     fields |-> << Field(<<"n","o","t","e","s">>, "text", <<"N","o","t","e","s">>, FALSE, "text", "none", <<>>, <<>>),
                   Field(<<"r","a","t","i","n","g">>, "text", <<"R","a","t","i","n","g">>, FALSE, "text", "none", <<>>, <<>>) >>]

\* the values a key of collected may hold: the four that count as unfilled
\* and an answer
ProgressValues == UNFILLED \cup {<<"x">>}

InitProgress ==
    /\ scn \in {[ScnIds EXCEPT !.form = f] : f \in {FormLoan, FormKyc, FormIds, FormDates, FormNotes}}
    /\ store = NewSession
    /\ req = [r \in {1, 2} |-> IdleReq]
    /\ last = NoTurn
    /\ turns = 0
    /\ wa_queued = 0
    /\ wa_running = {}

\* the function is applied to the collected map
ProgressApply ==
    /\ last.kind = "none"
    /\ last' = [NoTurn EXCEPT !.kind = "progress", !.pre = store,
                              !.result.progress = _compute_progress(scn.form, store.collected)]
    /\ UNCHANGED <<scn, store, req, turns, wa_queued, wa_running>>

\* a merge changes the value of one key
ProgressMerge ==
    /\ \E k \in FieldNames(scn.form), v \in ProgressValues :
        store' = [store EXCEPT !.collected = Put(@, k, v)]
    /\ last' = NoTurn
    /\ UNCHANGED <<scn, req, turns, wa_queued, wa_running>>

SpecProgress == InitProgress /\ [][ProgressApply \/ ProgressMerge]_vars

\* the required fields of the form that collected fills, by the claim's
\* reading: a value other than None, "", "N/A" and "SKIPPED"
FilledRequired(form_schema, collected) ==
    {i \in DOMAIN form_schema.fields :
        /\ form_schema.fields[i].is_required
        /\ Get(collected, form_schema.fields[i].field_name) \notin {None, <<>>, <<"N","/","A">>, <<"S","K","I","P","P","E","D">>}}

RequiredOf(form_schema) == {i \in DOMAIN form_schema.fields : form_schema.fields[i].is_required}

\* C14: the progress function counts the required fields only, None, "",
\* "N/A" and "SKIPPED" being unfilled; completed + remaining is the number
\* of required fields; percent is completed / total * 100 rounded to the
\* nearest integer (2 of 3 gives 67), and 100 when no field is required.
C14_ProgressRounded ==
    last.kind = "progress" =>
        LET p == last.result.progress
            total == Cardinality(RequiredOf(scn.form))
            done == Cardinality(FilledRequired(scn.form, last.pre.collected))
        IN /\ p.total_required = total
           /\ p.completed = done
           /\ p.completed + p.remaining = total
           /\ p.percent = IF total = 0 THEN 100 ELSE RoundPct(done, total)

\* every collected map over the fields of the form
CollectedMaps(form_schema) == [FieldNames(form_schema) -> ProgressValues]

\* the percentage of the collected map c
PercentOf(form_schema, c) == _compute_progress(form_schema, c).percent

\* C15: for a fixed schema, when the required fields that collected B fills
\* include those that collected A fills, the percent of B is at least the
\* percent of A; percent is always within 0..100.
C15_ProgressMonotone ==
    last.kind = "progress" =>
        /\ last.result.progress.percent \in 0..100
        /\ \A B \in CollectedMaps(scn.form) :
              FilledRequired(scn.form, last.pre.collected) \subseteq FilledRequired(scn.form, B)
                  => PercentOf(scn.form, B) >= last.result.progress.percent

\* the function applied to a map that fills some required fields and not
\* all, one of them with an answer that counts as unfilled
C15_Witness ==
    /\ last.kind = "progress"
    /\ last.result.progress.percent \in 1..99
    /\ \E k \in DOMAIN last.pre.collected : last.pre.collected[k] = <<"S","K","I","P","P","E","D">>
    /\ \E B \in CollectedMaps(scn.form) :
          /\ FilledRequired(scn.form, last.pre.collected) \subseteq FilledRequired(scn.form, B)
          /\ PercentOf(scn.form, B) > last.result.progress.percent

\* C16: whenever the tool call of the model reports a detected_lang, that
\* language is the session language persisted after the turn, whatever the
\* detector found in the message and whatever lang the request carried; the
\* language the turn persists is the one the session had, the model's, or,
\* when the model reports none, the detector's.
C16_ModelLanguageWins ==
    last.kind = "model" /\ last.resp.kind = "tool" =>
        /\ last.resp.detected_lang # NoLang => Persisted.lang = last.resp.detected_lang
        /\ last.resp.detected_lang = NoLang =>
               Persisted.lang \in {last.pre.lang, detect_language(last.msg)}

\* the first/middle/last/title/full-name fields of the schema, as the name
\* split finds them
NameSubFields(form_schema) ==
    UNION {Range(_find_fields(form_schema, kws, "name")) :
              kws \in {{<<"f","i","r","s","t","_","n","a","m","e">>, <<"f","n","a","m","e">>, <<"g","i","v","e","n","_","n","a","m","e">>},
                       {<<"m","i","d","d","l","e","_","n","a","m","e">>, <<"m","n","a","m","e">>, <<"m","i","d","d","l","e">>},
                       {<<"l","a","s","t","_","n","a","m","e">>, <<"l","n","a","m","e">>, <<"s","u","r","n","a","m","e">>, <<"f","a","m","i","l","y","_","n","a","m","e">>},
                       {<<"f","u","l","l","_","n","a","m","e">>, <<"n","a","m","e">>, <<"a","p","p","l","i","c","a","n","t","_","n","a","m","e">>, <<"c","a","n","d","i","d","a","t","e","_","n","a","m","e">>}}}
    \cup Range(_find_fields(form_schema, {<<"t","i","t","l","e">>, <<"s","a","l","u","t","a","t","i","o","n">>, <<"p","r","e","f","i","x">>}, "none"))

\* the keys of the extraction of the model
RawKeys == {last.raw[i].k : i \in DOMAIN last.raw}

\* C17: on a turn that is not a correction turn, a name sub-field that
\* holds a value (other than None, "", "N/A") and that the model did not
\* extract itself keeps its value: the name split writes only sub-fields
\* that are empty.
C17_SplitWritesOnlyEmptySubFields ==
    last.kind = "model" /\ ~_is_correction(last.msg) =>
        \A k \in NameSubFields(scn.form) \ RawKeys :
            Get(last.pre.collected, k) \notin {None, <<>>, <<"N","/","A">>}
                => /\ k \notin DOMAIN last.result.extracted
                   /\ Get(Persisted.collected, k) = Get(last.pre.collected, k)

\* the extraction after the name split of the turn
NameSplitOf ==
    _smart_name_split(_clean_extracted(last.resp.extracted, scn.form), scn.form,
                      last.pre.collected, _is_correction(last.msg))

\* C18: the rule table of the name split, for a name the model files under
\* any name field of the schema while no name is collected: two tokens give
\* first and last name; three tokens give first, middle and last name when
\* the schema has a middle name field; three or more tokens without a middle
\* name field give the first token and the rest joined by spaces.
C18_NameSplitTable ==
    /\ last.kind = "model" /\ last.resp.kind = "tool" /\ Len(last.resp.extracted) = 1
    /\ last.resp.extracted[1].k \in NameSubFields(scn.form)
    /\ last.pre.collected = EmptyDict
    =>
    LET parts == SplitWs(last.resp.extracted[1].v)
        has_middle == <<"m","i","d","d","l","e","_","n","a","m","e">> \in FieldNames(scn.form)
        split == NameSplitOf
    IN /\ Len(parts) = 2 =>
            /\ Get(split, <<"f","i","r","s","t","_","n","a","m","e">>) = parts[1]
            /\ Get(split, <<"l","a","s","t","_","n","a","m","e">>) = parts[2]
       /\ Len(parts) = 3 /\ has_middle =>
            /\ Get(split, <<"f","i","r","s","t","_","n","a","m","e">>) = parts[1]
            /\ Get(split, <<"m","i","d","d","l","e","_","n","a","m","e">>) = parts[2]
            /\ Get(split, <<"l","a","s","t","_","n","a","m","e">>) = parts[3]
       /\ Len(parts) >= 3 /\ ~has_middle =>
            /\ Get(split, <<"f","i","r","s","t","_","n","a","m","e">>) = parts[1]
            /\ Get(split, <<"l","a","s","t","_","n","a","m","e">>) = Join(<<" ">>, Tail(parts))

\* C19: on every turn whose result is complete, with a delivery channel
\* configured: when the session has no phone stored, a mobile number in the
\* message is stored as whatsapp_phone and returned under the reserved key,
\* and a decline phrase stores the skip sentinel; a phone already stored is
\* not changed.
C19_PhoneCapturedOnCompletion ==
    last.kind \in {"model", "confirm"} /\ last.result.is_complete /\ scn.wa_configured =>
        LET phone == _extract_phone_from_message(last.msg)
        IN IF Truthy(last.pre.whatsapp_phone)
           THEN Persisted.whatsapp_phone = last.pre.whatsapp_phone
           ELSE /\ Truthy(phone) => /\ last.session.whatsapp_phone = phone
                                    /\ Persisted.whatsapp_phone = phone
                /\ Truthy(phone) /\ phone # WA_SKIP =>
                       Get(last.result.extracted, k_whatsapp_phone) = phone

\* C20: the cleaning step drops every extracted key that is not a field of
\* the form, except the reserved phone key, which goes to whatsapp_phone;
\* so every key of the result is a field name or the reserved key, and
\* every key of the persisted collected map is a field name of the form.
C20_OnlySchemaKeysCollected ==
    /\ last.kind \in {"model", "confirm"} =>
        /\ DOMAIN last.result.extracted \subseteq FieldNames(scn.form) \cup {k_whatsapp_phone}
        /\ DOMAIN Persisted.collected \subseteq FieldNames(scn.form)
    /\ DOMAIN store.collected \subseteq FieldNames(scn.form)

\* the model extracts one value, for the field key, in the turn that finished last
Extracts(key) ==
    /\ last.kind = "model" /\ last.resp.kind = "tool"
    /\ Len(last.resp.extracted) = 1 /\ last.resp.extracted[1].k = key

\* a DD/MM/YYYY string
IsDateString(v) ==
    /\ IsStr(v) /\ Len(v) = 10
    /\ \A i \in 1..10 : IF i \in {3, 6} THEN v[i] = "/" ELSE IsDigit(v[i])

\* C21: a date written as a day (with or without an ordinal suffix), a month
\* name and a four-digit year is returned as the canonical DD/MM/YYYY string
\* and is not flagged as uncertain ("15th March 1990" gives "15/03/1990");
\* the delimited date "5/6/89", with ambiguous day/month order and a
\* two-digit year, is returned as a date string flagged as uncertain.
C21_DateWordsAndAmbiguousDate ==
    Extracts(<<"d","o","b">>) =>
        LET text == last.resp.extracted[1].v
            got == Get(last.result.extracted, <<"d","o","b">>)
            confident == <<"d","o","b">> \notin last.result.low_confidence
        IN /\ text \in {<<"1","5","t","h"," ","M","a","r","c","h"," ","1","9","9","0">>, <<"1","5"," ","m","a","r","c","h"," ","1","9","9","0">>} => got = <<"1","5","/","0","3","/","1","9","9","0">> /\ confident
           /\ text = <<"5","/","6","/","8","9">> => IsDateString(got) /\ ~confident

\* C22: an amount in number words with scale words is returned as the
\* integer amount in digits and is not flagged as uncertain ("fifty thousand
\* rupees" gives "50000"); a number with a multiplier word after a hedging
\* word is returned multiplied and flagged as uncertain ("around 2 lakh"
\* gives "200000").
C22_AmountWordsAndHedgedAmount ==
    Extracts(<<"s","a","l","a","r","y">>) =>
        LET text == last.resp.extracted[1].v
            got == Get(last.result.extracted, <<"s","a","l","a","r","y">>)
            confident == <<"s","a","l","a","r","y">> \notin last.result.low_confidence
        IN /\ text = <<"f","i","f","t","y"," ","t","h","o","u","s","a","n","d"," ","r","u","p","e","e","s">> => got = <<"5","0","0","0","0">> /\ confident
           /\ text = <<"a","r","o","u","n","d"," ","2"," ","l","a","k","h">> => got = <<"2","0","0","0","0","0">> /\ ~confident

\* C30: a delimited numeric date DD/MM/YYYY, with a four-digit year, is
\* returned as a DD/MM/YYYY string that carries the same year: only a
\* two-digit year is remapped to a century.
C30_FourDigitYearKept ==
    Extracts(<<"d","o","b">>) /\ IsDateString(last.resp.extracted[1].v) =>
        LET text == last.resp.extracted[1].v
            got == Get(last.result.extracted, <<"d","o","b">>)
        IN IsDateString(got) /\ SubSeq(got, 7, 10) = SubSeq(text, 7, 10)

\* C23: when a chat turn returns is_complete = true, so that the route
\* stores the status "completed", every required field that is not
\* suppressed is filled in the collected map the route persists.
C23_CompletedHasRequiredFilled ==
    (last.kind \in {"model", "confirm"} /\ last.result.is_complete) =>
        /\ Persisted.status = "completed"
        /\ all_required_done(scn.form, Persisted.collected)

\* the field is one Tier 1 claims: the branches of _hard_validate
Tier1Claims(key, field) ==
    LET name_low == Lower(key)
    IN \/ Contains(name_low, <<"p","h","o","n","e">>) \/ Contains(name_low, <<"m","o","b","i","l","e">>)
       \/ field.data_type = "phone" \/ field.validation_type = "phone"
       \/ Contains(name_low, <<"p","a","n">>) /\ ~Contains(name_low, <<"c","o","m","p","a","n","y">>)
       \/ Contains(name_low, <<"a","a","d","h","a","a","r">>) \/ Contains(name_low, <<"a","a","d","h","a","r">>)
       \/ Contains(name_low, <<"g","s","t","i","n">>) \/ (Contains(name_low, <<"g","s","t">>) /\ Contains(name_low, <<"n","u","m","b","e","r">>))
       \/ Contains(name_low, <<"i","f","s","c">>)
       \/ name_low = <<"t","a","n">> \/ StartsWith(name_low, <<"t","a","n","_">>) \/ EndsWith(name_low, <<"_","t","a","n">>)
       \/ field.validation_type = "email" \/ field.field_type = "email"

\* C24: for a field that Tier 1 claims, a value that passes the format check
\* of Tier 1, one already in normalised form included, leaves validation as
\* exactly the normalised value of Tier 1 and is returned so in extracted.
C24_Tier1ValueIsFinal ==
    /\ last.kind = "model" /\ last.resp.kind = "tool" /\ Len(last.resp.extracted) = 1
    /\ last.resp.extracted[1].k \in FieldNames(scn.form)
    /\ IsStr(last.resp.extracted[1].v)
    /\ Tier1Claims(last.resp.extracted[1].k, FieldOf(scn.form, last.resp.extracted[1].k))
    /\ _hard_validate(last.resp.extracted[1].k, last.resp.extracted[1].v,
                      FieldOf(scn.form, last.resp.extracted[1].k)).err = NoErr
    =>
    LET key == last.resp.extracted[1].k
        norm_val == _hard_validate(key, last.resp.extracted[1].v, FieldOf(scn.form, key)).val
    IN /\ Get(last.validated, key) = norm_val
       /\ Get(last.result.extracted, key) = norm_val

\* C25: in the result of every turn, each field of extracted that has a
\* depends_on clause has its condition satisfied by the merge of the
\* collected map the turn started with and the extracted map it returns.
C25_ExtractedDependentsShown ==
    last.kind = "model" =>
        \A i \in DOMAIN scn.form.fields :
            LET f == scn.form.fields[i]
            IN (f.depends_on # <<>> /\ f.field_name \in DOMAIN last.result.extracted)
                  => ~_should_skip_field(f, Merge(last.pre.collected, last.result.extracted))

\* one of the fixed affirmative words is a word of the message
HasAffirmativeWord(user_message) ==
    \E w \in confirm_words_en : ContainsWord(Lower(user_message), w)

\* C26: while the session awaits the confirmation of the summary, a turn
\* finalises the session only if its message has an affirmative word as a
\* word; a message without one clears the flag, goes through the model as an
\* ordinary turn and does not return is_complete = true by the short-circuit.
C26_OnlyAffirmativeWordFinalises ==
    /\ last.kind = "confirm" => HasAffirmativeWord(last.msg)
    /\ (last.kind \in {"model", "confirm"} /\ last.pre.awaiting /\ ~HasAffirmativeWord(last.msg)) =>
          /\ last.kind = "model"
          /\ ~last.result.is_complete \/ last.signalled
          /\ ~last.session.awaiting \/ last.gate

\* C27: the chat route starts the generate-and-send task only in a turn that
\* completes the session, and one task at most in such a turn: while a phone
\* number is registered and the session is not complete, the chat turns
\* start no task.
C27_TaskOnlyOnCompletion ==
    [][wa_queued' > wa_queued
          => /\ last'.kind \in {"model", "confirm"}
             /\ last'.result.is_complete
             /\ wa_queued' = wa_queued + 1]_vars

\* C28: the merge of a chat turn leaves filled every field that was filled
\* in the collected map the turn loaded, whatever the model extracts, and
\* the progress percent the route stores does not decrease.
C28_FilledStaysFilled ==
    last.kind \in {"model", "confirm"} =>
        /\ \A k \in DOMAIN last.pre.collected :
              last.pre.collected[k] \notin UNFILLED => Get(Persisted.collected, k) \notin UNFILLED
        /\ Persisted.progress >= RoutePct(last.pre, scn.form)

\* C29: when the confirmation turn returns is_complete = true while every
\* required field that is not suppressed is filled, the progress it returns
\* has remaining = 0 and percent = 100, and the lookup of the next unfilled
\* required field gives None, also when depends_on suppresses a required
\* field.
C29_CompletionAgreesWithProgress ==
    (last.kind = "confirm" /\ last.result.is_complete
        /\ all_required_done(scn.form, last.pre.collected)) =>
        /\ last.result.progress.remaining = 0
        /\ last.result.progress.percent = 100
        /\ _get_next_unfilled_field(scn.form, last.pre.collected) = None
====
